---- MODULE Spec2Model ----
(***************************************************************************)
(* EVE value calculator (wn7ant/eve-value): the rate fetch, the pack       *)
(* valuation and the "Best" ranking of the page scripts, as state          *)
(* machines over the scripts' global variables and the DOM cells they      *)
(* write.                                                                  *)
(*                                                                         *)
(* Numbers.  A JavaScript value is a record [k, n, d]: k is "fin" for the  *)
(* finite number n/d (exact, in lowest terms, d > 0), or one of "nan",     *)
(* "inf", "ninf", "null", "undef".  Arithmetic is exact: the rounding of   *)
(* IEEE doubles is not modelled.                                           *)
(*                                                                         *)
(* Units.  Money is counted in units of one nano-dollar, so that the       *)
(* tolerance 1e-9 of indexOfStrictMin is Eps = 1; ISK is counted in units  *)
(* of 2.5e8 ISK, so that the factor 1_000_000_000 of the $/Billion column  *)
(* is Billion = 4.  The comparisons of the scripts are invariant under     *)
(* this change of units.                                                   *)
(***************************************************************************)
EXTENDS Integers, Sequences, FiniteSets, TLC

VARIABLES
  packs,              \* let packs      (list of pack records)
  plans,              \* let plans      (list of plan records)
  plexISK,            \* let plexISK    (JS value)
  bestDollarPerPLEX,  \* let bestDollarPerPLEX (JS value)
  tbody,              \* TBODY.innerHTML, as a record
  omegaBody,          \* OMEGA_BODY.innerHTML, as a record
  source,             \* SOURCE.value, the <select> of part_007
  alerts,             \* number of alert() dialogs raised
  rf,                 \* the refresh() invocations: rf[r] is the position of r
  last,               \* the handler that ran last, with its input
  arr,                \* argument of a function under test
  ret,                \* its result
  variant,            \* the program loaded in the page (file and program)
  writer              \* which refresh wrote packs, plexISK and TBODY last

vars == <<packs, plans, plexISK, bestDollarPerPLEX, tbody, omegaBody,
          source, alerts, rf, last, arr, ret, variant, writer>>

-----------------------------------------------------------------------------
(* Bounds *)

MaxArr == 4        \* longest list handed to indexOfStrictMin
MaxVal == 4        \* largest list element, in units of Eps / 2
MaxPacks == 2      \* longest pack list handed to renderValueTable on its own
MaxPrices == 2     \* most records in an ESI prices payload
MaxOrders == 4     \* most sell orders handed to the aggregation on its own
MaxRefresh == 2    \* refresh() invocations of one page: the auto-run and the clicks
MaxAlerts == 2     \* alert() dialogs raised by setManualPLEX
MaxPages == 2      \* largest X-Pages of a sell-order listing

(* Program constants, in model units *)

Eps == 1
Billion == 4
TYPE_PLEX == 44992

-----------------------------------------------------------------------------
(* JavaScript numbers *)

V(k, n, d) == [k |-> k, n |-> n, d |-> d]
Null  == V("null", 0, 1)
Undef == V("undef", 0, 1)
NaN   == V("nan", 0, 1)
PosInf == V("inf", 0, 1)
NegInf == V("ninf", 0, 1)

Abs(x) == IF x < 0 THEN -x ELSE x

RECURSIVE GCD(_, _)
GCD(a, b) == IF b = 0 THEN a ELSE GCD(b, a % b)

\* the finite number n/d, d # 0, in lowest terms
Frac(n, d) ==
  LET s == IF d < 0 THEN -1 ELSE 1
      g == GCD(Abs(n), Abs(d))
  IN  V("fin", (s * n) \div g, (s * d) \div g)

Num(n) == V("fin", n, 1)

\* ToNumber: null is 0, undefined is NaN
ToNumber(v) ==
  CASE v.k = "null"  -> Num(0)
    [] v.k = "undef" -> NaN
    [] OTHER         -> v

\* the global isFinite(v), which converts its argument
IsFinite(v) == ToNumber(v).k = "fin"

\* Number.isFinite(v), which does not: null and undefined are not finite
NumberIsFinite(v) == v.k = "fin"

Sign(v) ==
  CASE v.k = "inf"  -> 1
    [] v.k = "ninf" -> -1
    [] v.k = "fin"  -> IF v.n > 0 THEN 1 ELSE IF v.n < 0 THEN -1 ELSE 0
    [] OTHER        -> 0

\* a < b
Lt(a0, b0) ==
  LET a == ToNumber(a0)
      b == ToNumber(b0)
  IN  CASE a.k = "nan" \/ b.k = "nan"   -> FALSE
        [] a.k = "fin" /\ b.k = "fin"   -> a.n * b.d < b.n * a.d
        [] a.k = "ninf"                 -> b.k # "ninf"
        [] b.k = "inf"                  -> a.k # "inf"
        [] OTHER                        -> FALSE

\* a <= b
Le(a0, b0) ==
  LET a == ToNumber(a0)
      b == ToNumber(b0)
  IN  /\ a.k # "nan" /\ b.k # "nan"
      /\ ~Lt(b, a)

\* a > 0
Positive(v) == Lt(Num(0), v)

\* a - b
Sub(a0, b0) ==
  LET a == ToNumber(a0)
      b == ToNumber(b0)
  IN  CASE a.k = "nan" \/ b.k = "nan"   -> NaN
        [] a.k = "fin" /\ b.k = "fin"   -> Frac(a.n * b.d - b.n * a.d, a.d * b.d)
        [] a.k = "fin"                  -> IF b.k = "inf" THEN NegInf ELSE PosInf
        [] b.k = "fin"                  -> a
        [] a.k = b.k                    -> NaN
        [] OTHER                        -> a

\* a + b
Add(a0, b0) ==
  LET a == ToNumber(a0)
      b == ToNumber(b0)
  IN  CASE a.k = "nan" \/ b.k = "nan"   -> NaN
        [] a.k = "fin" /\ b.k = "fin"   -> Frac(a.n * b.d + b.n * a.d, a.d * b.d)
        [] a.k = "fin"                  -> b
        [] b.k = "fin"                  -> a
        [] a.k = b.k                    -> a
        [] OTHER                        -> NaN

\* a * b
Mul(a0, b0) ==
  LET a == ToNumber(a0)
      b == ToNumber(b0)
      s == Sign(a) * Sign(b)
  IN  CASE a.k = "nan" \/ b.k = "nan"   -> NaN
        [] a.k = "fin" /\ b.k = "fin"   -> Frac(a.n * b.n, a.d * b.d)
        [] s = 0                        -> NaN
        [] s > 0                        -> PosInf
        [] OTHER                        -> NegInf

\* a / b
Div(a0, b0) ==
  LET a == ToNumber(a0)
      b == ToNumber(b0)
      s == Sign(a) * Sign(b)
  IN  CASE a.k = "nan" \/ b.k = "nan"   -> NaN
        [] a.k = "fin" /\ b.k = "fin"   ->
             IF b.n # 0 THEN Frac(a.n * b.d, a.d * b.n)
             ELSE IF a.n = 0 THEN NaN
             ELSE IF a.n > 0 THEN PosInf ELSE NegInf   \* the model has no -0
        [] a.k = "fin"                  -> Num(0)
        [] b.k = "fin"                  ->
             IF Sign(a) * (IF b.n < 0 THEN -1 ELSE 1) > 0 THEN PosInf ELSE NegInf
        [] OTHER                        -> NaN

\* !v on a number or null / undefined
Falsy(v) == v.k \in {"null", "undef", "nan"} \/ (v.k = "fin" /\ v.n = 0)

\* a ?? b
Coalesce(a, b) == IF a.k \in {"null", "undef"} THEN b ELSE a

-----------------------------------------------------------------------------
(* Ranking Selector *)

\* the loop of indexOfStrictMin from index i on (0-based indices, a[i+1] is arr[i])
RECURSIVE ScanStrictMin(_, _, _, _)
ScanStrictMin(a, i, bestIdx, bestVal) ==
  IF i >= Len(a) THEN bestIdx
  ELSE IF Lt(a[i + 1], Sub(bestVal, Num(Eps)))
       THEN ScanStrictMin(a, i + 1, i, a[i + 1])
       ELSE ScanStrictMin(a, i + 1, bestIdx, bestVal)

\* a plausible slip: the comparison without the tolerance
RECURSIVE ScanPlainMin(_, _, _, _)
ScanPlainMin(a, i, bestIdx, bestVal) ==
  IF i >= Len(a) THEN bestIdx
  ELSE IF Lt(a[i + 1], bestVal)
       THEN ScanPlainMin(a, i + 1, i, a[i + 1])
       ELSE ScanPlainMin(a, i + 1, bestIdx, bestVal)

indexOfPlainMin(a) ==
  ScanPlainMin(a, 1, 0, IF Len(a) = 0 THEN Undef ELSE a[1])

\* indexOfStrictMin(arr): bestIdx = 0, bestVal = arr[0] (undefined when arr is empty)
indexOfStrictMin(a) ==
  ScanStrictMin(a, 1, 0, IF Len(a) = 0 THEN Undef ELSE a[1])

-----------------------------------------------------------------------------
(* What a table body shows: a single status row, a single error row, or rows *)

Status(msg) == [kind |-> "status", text |-> msg, rows |-> <<>>]
Error(msg) == [kind |-> "error", text |-> msg, rows |-> <<>>]
Rows(rows) == [kind |-> "rows", text |-> "", rows |-> rows]

-----------------------------------------------------------------------------
(* Offer valuation: script.js, first program *)

SeqMap(Op(_), s) == [i \in 1..Len(s) |-> Op(s[i])]

\* the Best flags by Math.min and an absolute tolerance, as part_011 77-105
\* computes them (every value within the tolerance of the minimum is flagged)
BestMarksByTolerance(values) ==
  [i \in 1..Len(values) |->
     \A j \in 1..Len(values) : Le(values[i], values[j])]

\* isBest = (i === indexOfStrictMin(values)), for each row i
BestMarks(values) ==
  [i \in 1..Len(values) |-> (i - 1) = indexOfStrictMin(values)]

\* one element of rows = packs.map(...)
PackRow(p, rate) ==
  LET price == Coalesce(p.sale_price_usd, p.price_usd)
      perPLEX == Div(price, p.plex_amount)
      dollarPerISK == Div(price, Mul(p.plex_amount, rate))
      perBillion == Mul(dollarPerISK, Num(Billion))
  IN  [price |-> price, perPLEX |-> perPLEX, perBillion |-> perBillion]

PackRows(ps, rate) == [i \in 1..Len(ps) |-> PackRow(ps[i], rate)]

\* a plausible slip: a best $/PLEX that is already known is reused, and the
\* $/PLEX badges are given by comparison with it
renderValueTableCached(ps, rate, oldBest) ==
  IF Len(ps) = 0 THEN [tbody |-> Status("No packs loaded."), best |-> oldBest]
  ELSE IF Falsy(rate) THEN [tbody |-> Status("Waiting for PLEX price"), best |-> oldBest]
  ELSE
    LET rows == PackRows(ps, rate)
        perPLEXArr == [i \in 1..Len(rows) |-> rows[i].perPLEX]
        perBillionArr == [i \in 1..Len(rows) |-> rows[i].perBillion]
        known == NumberIsFinite(oldBest)
        bestA == IF known THEN [i \in 1..Len(rows) |-> perPLEXArr[i] = oldBest]
                 ELSE BestMarks(perPLEXArr)
        bestB == BestMarks(perBillionArr)
    IN  [tbody |-> Rows([i \in 1..Len(rows) |->
                     [price |-> rows[i].price, perPLEX |-> rows[i].perPLEX,
                      metricB |-> rows[i].perBillion,
                      isBestA |-> bestA[i], isBestB |-> bestB[i]]]),
         best |-> IF known THEN oldBest
                  ELSE rows[indexOfStrictMin(perPLEXArr) + 1].perPLEX]

\* renderValueTable(): the new TBODY and the new bestDollarPerPLEX
renderValueTable(ps, rate, oldBest) ==
  IF Len(ps) = 0 THEN [tbody |-> Status("No packs loaded."), best |-> oldBest]
  ELSE IF Falsy(rate) THEN [tbody |-> Status("Waiting for PLEX price"), best |-> oldBest]
  ELSE
    LET rows == PackRows(ps, rate)
        perPLEXArr == [i \in 1..Len(rows) |-> rows[i].perPLEX]
        perBillionArr == [i \in 1..Len(rows) |-> rows[i].perBillion]
        bestA == BestMarks(perPLEXArr)
        bestB == BestMarks(perBillionArr)
    IN  [tbody |-> Rows([i \in 1..Len(rows) |->
                     [price |-> rows[i].price, perPLEX |-> rows[i].perPLEX,
                      metricB |-> rows[i].perBillion,
                      isBestA |-> bestA[i], isBestB |-> bestB[i]]]),
         best |-> rows[indexOfStrictMin(perPLEXArr) + 1].perPLEX]

\* monthsFromLabel(label): the first run of digits of the label, or 1
monthsFromLabel(label) ==
  CASE label = "1 Month"   -> Num(1)
    [] label = "3 Months"  -> Num(3)
    [] label = "12 Months" -> Num(12)
    [] OTHER               -> Num(1)

\* Math.min(a, b)
MathMin(a0, b0) ==
  LET a == ToNumber(a0)
      b == ToNumber(b0)
  IN  IF a.k = "nan" \/ b.k = "nan" THEN NaN ELSE IF Lt(b, a) THEN b ELSE a

\* Math.min(...values): Infinity for no values, NaN when a value is NaN
RECURSIVE MathMinOf(_, _)
MathMinOf(values, i) ==
  IF i > Len(values) THEN PosInf ELSE MathMin(values[i], MathMinOf(values, i + 1))

\* Math.abs(v)
MathAbs(v0) ==
  LET v == ToNumber(v0)
  IN  CASE v.k = "fin" -> Frac(Abs(v.n), v.d)
        [] v.k = "ninf" -> PosInf
        [] OTHER -> v

\* the tolerance 1e-12, in units of 1e-9
Tolerance == Frac(1, 1000)

\* isBest = Math.abs(value - Math.min(...values)) < 1e-12, for each row
BestMarksMathMin(values) ==
  LET best == MathMinOf(values, 1)
  IN  [i \in 1..Len(values) |-> Lt(MathAbs(Sub(values[i], best)), Tolerance)]

\* renderOmegaTable(): the new OMEGA_BODY
renderOmegaTable(pl, rate, best) ==
  IF Len(pl) = 0 THEN Status("No Omega data.")
  ELSE IF Falsy(rate) \/ ~NumberIsFinite(best) THEN Status("Waiting for prices")
  ELSE
    LET months == [i \in 1..Len(pl) |-> monthsFromLabel(pl[i].label)]
        cashPerMonth == [i \in 1..Len(pl) |-> Div(pl[i].cash_usd, months[i])]
        plexExchangeTotalUSD == [i \in 1..Len(pl) |-> Mul(pl[i].plex_cost, best)]
        monthlyCosts == [i \in 1..Len(pl) |->
                           MathMin(cashPerMonth[i], Div(plexExchangeTotalUSD[i], months[i]))]
        bestIdx == indexOfStrictMin(monthlyCosts)
    IN  Rows([i \in 1..Len(pl) |->
               [label |-> pl[i].label, cashUSD |-> ToNumber(pl[i].cash_usd),
                plexExchangeTotalUSD |-> plexExchangeTotalUSD[i],
                isBest |-> (i - 1) = bestIdx]])

-----------------------------------------------------------------------------
(* Rate source: the ESI prices endpoint, script.js 66-100 and 306-326 *)

\* what an async function ends with
Throw(msg) == [threw |-> TRUE, detail |-> msg, value |-> Null]
Return(v) == [threw |-> FALSE, detail |-> "", value |-> v]

\* data.find(d => Number(d.type_id) === TYPE_PLEX): the index of the first
\* PLEX record, 0 when there is none
RECURSIVE FindPlex(_, _)
FindPlex(data, i) ==
  IF i > Len(data) THEN 0
  ELSE IF data[i].type_id = TYPE_PLEX THEN i
  ELSE FindPlex(data, i + 1)

\* the choice of part_011 55-74: Number(row.average_price ?? row.adjusted_price)
ChosenPriceCoalesce(row) ==
  ToNumber(Coalesce(row.average_price, row.adjusted_price))

\* const chosen = isFinite(avg) && avg > 0 ? avg : (isFinite(adj) && adj > 0 ? adj : NaN)
ChosenPrice(row) ==
  LET avg == ToNumber(row.average_price)
      adj == ToNumber(row.adjusted_price)
  IN  IF NumberIsFinite(avg) /\ Positive(avg) THEN avg
      ELSE IF NumberIsFinite(adj) /\ Positive(adj) THEN adj
      ELSE NaN

\* fetchPLEXFromESIPrices() on the response resp: the rate it assigns to
\* plexISK, or the error it throws
fetchPLEXFromESIPrices(resp) ==
  IF resp.status = "http_error" THEN Throw("ESI prices HTTP")
  ELSE IF resp.status = "bad_json" THEN Throw("JSON")
  ELSE IF ~resp.isArray \/ Len(resp.data) = 0
       THEN Throw("ESI prices returned an empty array.")
  ELSE IF FindPlex(resp.data, 1) = 0
       THEN Throw("PLEX (type_id=44992) not found in ESI prices.")
  ELSE LET chosen == ChosenPrice(resp.data[FindPlex(resp.data, 1)])
       IN  IF ~NumberIsFinite(chosen) \/ Le(chosen, Num(0))
           THEN Throw("PLEX price missing or zero in ESI prices.")
           ELSE Return(chosen)

-----------------------------------------------------------------------------
(* Rate source and aggregation: ESI sell orders, part_007 56-116 *)

\* orders.map(o => Number(o.price)).filter(p => Number.isFinite(p) && p > 0)
RECURSIVE ValidPrices(_)
ValidPrices(orders) ==
  IF Len(orders) = 0 THEN <<>>
  ELSE LET p == ToNumber(orders[1].price)
       IN  IF NumberIsFinite(p) /\ Positive(p)
           THEN <<p>> \o ValidPrices(Tail(orders))
           ELSE ValidPrices(Tail(orders))

\* x put into the ascending list s, after the elements equal to it
RECURSIVE Insert(_, _)
Insert(x, s) ==
  IF Len(s) = 0 THEN <<x>>
  ELSE IF Lt(x, s[1]) THEN <<x>> \o s
  ELSE <<s[1]>> \o Insert(x, Tail(s))

\* prices.slice().sort((a, b) => a - b)
RECURSIVE SortAscending(_)
SortAscending(prices) ==
  IF Len(prices) = 0 THEN <<>>
  ELSE Insert(prices[Len(prices)], SortAscending(SubSeq(prices, 1, Len(prices) - 1)))

\* sorted.reduce((s, v) => s + v, 0)
RECURSIVE SumOf(_)
SumOf(s) == IF Len(s) = 0 THEN Num(0) ELSE Add(s[1], SumOf(Tail(s)))

\* a plausible slip: the middle element also for an even count
statsMiddleOnly(prices) ==
  IF Len(prices) = 0 THEN [min |-> Null, avg |-> Null, median |-> Null]
  ELSE LET sorted == SortAscending(prices)
           mid == Len(sorted) \div 2
       IN  [min |-> sorted[1],
            avg |-> Div(SumOf(sorted), Num(Len(sorted))),
            median |-> sorted[mid + 1]]

\* stats(prices)
stats(prices) ==
  IF Len(prices) = 0 THEN [min |-> Null, avg |-> Null, median |-> Null]
  ELSE LET sorted == SortAscending(prices)
           mid == Len(sorted) \div 2
       IN  [min |-> sorted[1],
            avg |-> Div(SumOf(sorted), Num(Len(sorted))),
            median |-> IF Len(sorted) % 2 = 0
                       THEN Div(Add(sorted[mid], sorted[mid + 1]), Num(2))
                       ELSE sorted[mid + 1]]

\* the part of fetchPlexISK() after the orders have arrived (lines 97-114),
\* with src the value of SOURCE at line 107
AggregateOrders(orders, src) ==
  LET prices == ValidPrices(orders)
  IN  IF Len(prices) = 0
      THEN Throw("No valid sell prices returned by ESI (prices array is empty).")
      ELSE LET st == stats(prices)
               pick == CASE src = "min" -> st.min
                         [] src = "avg" -> st.avg
                         [] src = "median" -> st.median
                         [] OTHER -> Undef
           IN  IF pick.k \in {"null", "undef"} \/ ~IsFinite(pick) \/ Le(pick, Num(0))
               THEN Throw("Price feed returned zero/invalid values after aggregation.")
               ELSE Return(pick)

-----------------------------------------------------------------------------
(* Values the variables hold while a specification does not use them *)

\* nothing written by a refresh yet (0: the script itself)
NoWriter == [packs |-> 0, plexISK |-> 0, tbody |-> 0]

NoRet == [done |-> FALSE, v |-> 0]
NoLast == [op |-> "load", r |-> 0, arg |-> Null]
Blank == Status("")

\* all sequences over S of length 0..n
SeqUpTo(S, n) == UNION {[1..k -> S] : k \in 0..n}

-----------------------------------------------------------------------------
(* indexOfStrictMin on its own: script.js 41-48, 275-288; part_005 43-54 *)

\* list elements: 0, 1/2, 1, ... MaxVal/2 (Eps = 1)
MinVals == {Frac(n, 2) : n \in 0..MaxVal}

InitMin ==
  /\ writer = NoWriter
  /\ variant = "script.js"
  /\ arr \in SeqUpTo(MinVals, MaxArr)
  /\ ret = NoRet
  /\ packs = <<>> /\ plans = <<>> /\ plexISK = Null /\ bestDollarPerPLEX = Null
  /\ tbody = Blank /\ omegaBody = Blank /\ source = "median" /\ alerts = 0
  /\ rf = <<>> /\ last = NoLast

CallIndexOfStrictMin ==
  /\ ~ret.done
  /\ ret' = [done |-> TRUE, v |-> indexOfStrictMin(arr)]
  /\ last' = [op |-> "indexOfStrictMin", r |-> 0, arg |-> Null]
  /\ UNCHANGED <<variant, writer, packs, plans, plexISK, bestDollarPerPLEX, tbody, omegaBody,
                 source, alerts, rf, arr>>

NextMin == CallIndexOfStrictMin

SpecMin == InitMin /\ [][NextMin]_vars

\* the first index (0-based) that holds the smallest element of a non-empty list
FirstIndexOfMin(a) ==
  CHOOSE i \in 0..(Len(a) - 1) :
    /\ \A j \in 0..(Len(a) - 1) : Le(a[i + 1], a[j + 1])
    /\ \A j \in 0..(i - 1) : a[j + 1] # a[i + 1]

\* any two different values of the list are more than Eps apart
SpreadOut(a) ==
  \A i, j \in 1..Len(a) : a[i] # a[j] => Lt(Num(Eps), Sub(a[i], a[j])) \/ Lt(Num(Eps), Sub(a[j], a[i]))

\* x is smaller than y, by no more than Eps
SmallerWithinEps(x, y) == Lt(x, y) /\ Le(Sub(y, x), Num(Eps))

\* C2, as claimed: on spread-out lists the result is the first index of the
\* minimum, and an element that is smaller than an EARLIER element by no more
\* than Eps is never the result.
C2_AnyEarlierWins ==
  (ret.done /\ Len(arr) > 0) =>
    /\ SpreadOut(arr) => ret.v = FirstIndexOfMin(arr)
    /\ \A i, j \in 1..Len(arr) :
         (i < j /\ SmallerWithinEps(arr[j], arr[i])) => ret.v # j - 1

\* C2, amended: on spread-out lists the result is the first index of the
\* minimum; the result is index 0 unless it is smaller than arr[0] by more than
\* Eps, it is smaller than every element before it, and no element after it is
\* smaller than it by more than Eps (within Eps the current best is kept).
C2_CurrentBestWins ==
  (ret.done /\ Len(arr) > 0) =>
    /\ ret.v \in 0..(Len(arr) - 1)
    /\ SpreadOut(arr) => ret.v = FirstIndexOfMin(arr)
    /\ ret.v # 0 => Lt(arr[ret.v + 1], Sub(arr[1], Num(Eps)))
    /\ \A i \in 1..ret.v : Lt(arr[ret.v + 1], arr[i])
    /\ \A j \in (ret.v + 2)..Len(arr) : ~Lt(arr[j], Sub(arr[ret.v + 1], Num(Eps)))

\* a later element within Eps below the first one lost, and a spread-out list
\* with a repeated minimum was ranked
C2_Witness ==
  /\ ret.done
  /\ \/ Len(arr) = 2 /\ SmallerWithinEps(arr[2], arr[1]) /\ ret.v = 0
     \/ arr = <<Num(2), Num(0), Num(0), Num(2)>> /\ ret.v = 1

-----------------------------------------------------------------------------
(* renderValueTable on its own: script.js 115-157 *)

\* packs.json records: the prices and amounts a maintainer may write, a
\* missing sale price, a missing or zero amount
PackUniverse ==
  [price_usd : {Num(2), Num(4)},
   sale_price_usd : {Undef, Num(1)},
   plex_amount : {Undef, Num(0), Num(1), Num(2)}]

\* rates fetchPLEXFromESIPrices can leave in plexISK
GoodRates == {Num(1), Num(2), Num(5)}

InitRender ==
  /\ writer = NoWriter
  /\ variant = "script.js"
  /\ packs \in SeqUpTo(PackUniverse, MaxPacks)
  /\ plexISK \in GoodRates
  /\ bestDollarPerPLEX = Null
  /\ tbody = Status("Loading")
  /\ ret = NoRet
  /\ plans = <<>> /\ omegaBody = Blank /\ source = "median" /\ alerts = 0
  /\ rf = <<>> /\ last = NoLast /\ arr = <<>>

CallRenderValueTable ==
  /\ ~ret.done
  /\ LET out == renderValueTable(packs, plexISK, bestDollarPerPLEX)
     IN  /\ tbody' = out.tbody
         /\ bestDollarPerPLEX' = out.best
  /\ ret' = [done |-> TRUE, v |-> 0]
  /\ last' = [op |-> "renderValueTable", r |-> 0, arg |-> Null]
  /\ UNCHANGED <<variant, writer, packs, plans, plexISK, omegaBody, source, alerts, rf, arr>>

NextRender == CallRenderValueTable

SpecRender == InitRender /\ [][NextRender]_vars

BadgesA(t) == {i \in 1..Len(t.rows) : t.rows[i].isBestA}
BadgesB(t) == {i \in 1..Len(t.rows) : t.rows[i].isBestB}

\* C1: after renderValueTable, a non-empty pack list with a positive rate shows
\* one row per pack with exactly one Best badge in the $/PLEX column and exactly
\* one in the $/Billion column; an empty pack list shows 'No packs loaded.'
C1_ExactlyOneBest ==
  ret.done =>
    IF Len(packs) = 0 THEN tbody = Status("No packs loaded.")
    ELSE Positive(plexISK) =>
           /\ tbody.kind = "rows"
           /\ Len(tbody.rows) = Len(packs)
           /\ Cardinality(BadgesA(tbody)) = 1
           /\ Cardinality(BadgesB(tbody)) = 1

\* two packs with the same $/PLEX were ranked
C1_Witness ==
  /\ ret.done
  /\ Len(packs) = 2
  /\ tbody.kind = "rows"
  /\ tbody.rows[1].perPLEX = tbody.rows[2].perPLEX
  /\ tbody.rows[1].perPLEX.k = "fin"
  /\ BadgesA(tbody) = {1}

-----------------------------------------------------------------------------
(* fetchPLEXFromESIPrices on its own: script.js 66-100 *)

\* records of the prices payload: PLEX or another type; a price may be
\* missing, zero, negative, too large for a double, or usable
PriceRecords ==
  [type_id : {TYPE_PLEX, 34},
   average_price : {Undef, Num(0), Num(-1), PosInf, Num(7)},
   adjusted_price : {Undef, Num(0), Num(5)}]

PricesResponses ==
  {[status |-> st, isArray |-> TRUE, data |-> <<>>] : st \in {"http_error", "bad_json"}}
    \cup {[status |-> "ok", isArray |-> FALSE, data |-> <<>>]}
    \cup {[status |-> "ok", isArray |-> TRUE, data |-> d] : d \in SeqUpTo(PriceRecords, MaxPrices)}

InitPrices ==
  /\ writer = NoWriter
  /\ variant = "script.js"
  /\ arr \in PricesResponses
  /\ plexISK \in {Null, Num(3)}
  /\ ret = NoRet
  /\ packs = <<>> /\ plans = <<>> /\ bestDollarPerPLEX = Null
  /\ tbody = Status("Loading") /\ omegaBody = Blank /\ source = "median" /\ alerts = 0
  /\ rf = <<>> /\ last = NoLast

CallFetchPLEXFromESIPrices ==
  /\ ~ret.done
  /\ LET out == fetchPLEXFromESIPrices(arr)
     IN  /\ plexISK' = IF out.threw THEN plexISK ELSE out.value
         /\ ret' = [done |-> TRUE, v |-> out.threw]
  /\ last' = [op |-> "fetchPLEXFromESIPrices", r |-> 0, arg |-> Null]
  /\ UNCHANGED <<variant, writer, packs, plans, bestDollarPerPLEX, tbody, omegaBody, source,
                 alerts, rf, arr>>

NextPrices == CallFetchPLEXFromESIPrices

SpecPrices == InitPrices /\ [][NextPrices]_vars

UsablePrice(v) == v.k = "fin" /\ v.n > 0

PlexRecords(resp) ==
  IF resp.status = "ok" /\ resp.isArray
  THEN {i \in 1..Len(resp.data) : resp.data[i].type_id = TYPE_PLEX}
  ELSE {}

\* the PLEX record of a payload that has one
PlexRecord(resp) ==
  resp.data[CHOOSE i \in PlexRecords(resp) : \A j \in PlexRecords(resp) : i <= j]

\* C6: fetchPLEXFromESIPrices sets plexISK to the PLEX record's average_price
\* when that is finite and > 0, otherwise to its adjusted_price when that is
\* finite and > 0, and otherwise throws and leaves plexISK as it was; without
\* a PLEX record it throws and leaves plexISK as it was.
C6_AverageThenAdjusted ==
  [][ret'.done =>
       IF PlexRecords(arr) = {}
       THEN ret'.v /\ plexISK' = plexISK
       ELSE LET row == PlexRecord(arr)
            IN  IF UsablePrice(row.average_price)
                THEN ~ret'.v /\ plexISK' = row.average_price
                ELSE IF UsablePrice(row.adjusted_price)
                THEN ~ret'.v /\ plexISK' = row.adjusted_price
                ELSE ret'.v /\ plexISK' = plexISK]_vars

\* the average price was present but zero, and the adjusted price was taken
C6_Witness ==
  /\ ret.done
  /\ PlexRecords(arr) # {}
  /\ PlexRecord(arr).average_price = Num(0)
  /\ PlexRecord(arr).adjusted_price = Num(5)
  /\ plexISK = Num(5)

-----------------------------------------------------------------------------
(* The aggregation of fetchPlexISK on its own: part_007 93-116 *)

Sources == {"min", "avg", "median"}

\* the price field of a sell order: missing, zero, negative, or a price
OrderUniverse == [price : {Undef, Num(0), Num(-2), Num(1), Num(2), Num(4), Num(7)}]

InitStats ==
  /\ writer = NoWriter
  /\ variant = "part_007"
  /\ arr \in SeqUpTo(OrderUniverse, MaxOrders)
  /\ source \in Sources
  /\ plexISK \in {Null, Num(9)}
  /\ ret = NoRet
  /\ packs = <<>> /\ plans = <<>> /\ bestDollarPerPLEX = Null
  /\ tbody = Status("Loading") /\ omegaBody = Blank /\ alerts = 0
  /\ rf = <<>> /\ last = NoLast

CallAggregateOrders ==
  /\ ~ret.done
  /\ LET out == AggregateOrders(arr, source)
     IN  /\ plexISK' = IF out.threw THEN plexISK ELSE out.value
         /\ ret' = [done |-> TRUE, v |-> out.threw]
  /\ last' = [op |-> "fetchPlexISK", r |-> 0, arg |-> Null]
  /\ UNCHANGED <<variant, writer, packs, plans, bestDollarPerPLEX, tbody, omegaBody, source,
                 alerts, rf, arr>>

NextStats == CallAggregateOrders

SpecStats == InitStats /\ [][NextStats]_vars

AllUsable(orders) ==
  \A i \in 1..Len(orders) : orders[i].price.k = "fin" /\ orders[i].price.n > 0

\* the integer prices of a list of usable orders
IntPrices(orders) == [i \in 1..Len(orders) |-> orders[i].price.n]

RECURSIVE IntSum(_)
IntSum(s) == IF Len(s) = 0 THEN 0 ELSE s[1] + IntSum(Tail(s))

\* the k-th smallest (k = 1 is the smallest) element of the list s of integers
Ranked(s, k) ==
  CHOOSE x \in {s[i] : i \in 1..Len(s)} :
    /\ Cardinality({i \in 1..Len(s) : s[i] < x}) < k
    /\ Cardinality({i \in 1..Len(s) : s[i] <= x}) >= k

\* C4: for a non-empty list of finite positive prices the stored plexISK is the
\* smallest price under 'min', the arithmetic mean under 'avg', and under
\* 'median' the middle element of the sorted list (odd count) or the average of
\* the two middle elements (even count).
C4_Aggregates ==
  (ret.done /\ Len(arr) > 0 /\ AllUsable(arr)) =>
    LET s == IntPrices(arr)
        n == Len(s)
    IN  /\ ~ret.v
        /\ source = "min" =>
             /\ plexISK.k = "fin" /\ plexISK.d = 1
             /\ \E i \in 1..n : s[i] = plexISK.n
             /\ \A i \in 1..n : plexISK.n <= s[i]
        /\ source = "avg" => plexISK = Frac(IntSum(s), n)
        /\ source = "median" =>
             plexISK = IF n % 2 = 1
                       THEN Num(Ranked(s, (n + 1) \div 2))
                       ELSE Frac(Ranked(s, n \div 2) + Ranked(s, n \div 2 + 1), 2)

\* the median of an unsorted list of four prices whose middle elements differ
C4_Witness ==
  /\ ret.done
  /\ source = "median"
  /\ arr = <<[price |-> Num(7)], [price |-> Num(1)], [price |-> Num(4)], [price |-> Num(2)]>>
  /\ plexISK = Num(3)

-----------------------------------------------------------------------------
(* script.js, first program: refresh() with Promise.all, lines 224-242 *)

\* packs.json as the maintainer may have it: empty, or two packs with the same
\* $/PLEX behind a pack without an amount
PackA == [price_usd |-> Num(4), sale_price_usd |-> Undef, plex_amount |-> Num(2)]
PackB == [price_usd |-> Num(2), sale_price_usd |-> Num(1), plex_amount |-> Num(0)]
PackC == [price_usd |-> Num(2), sale_price_usd |-> Undef, plex_amount |-> Num(1)]
PackLists == {<<>>, <<PackB, PackC, PackA>>}

PlanLists ==
  {<<>>,
   <<[label |-> "1 Month", cash_usd |-> Num(20), plex_cost |-> Num(5)],
     [label |-> "3 Months", cash_usd |-> Num(48), plex_cost |-> Num(12)]>>}

\* a response to fetch(url) followed by res.json()
FileResponses(lists) ==
  {[status |-> "http_error", data |-> <<>>]}
    \cup {[status |-> "ok", data |-> d] : d \in lists}

\* the prices payloads the page meets: an error, a PLEX record without a
\* usable price, with an average price, with an adjusted price only
PlexOnly(avg, adj) ==
  [status |-> "ok", isArray |-> TRUE,
   data |-> <<[type_id |-> 34, average_price |-> Num(7), adjusted_price |-> Num(7)],
              [type_id |-> TYPE_PLEX, average_price |-> avg, adjusted_price |-> adj]>>]

FewPricesResponses ==
  {[status |-> "http_error", isArray |-> TRUE, data |-> <<>>],
   PlexOnly(Num(0), Undef), PlexOnly(Num(2), Num(5)), PlexOnly(Num(0), Num(5))}

\* loadPacks() / loadOmega() on a response: the list assigned, or the error
loadFile(name, resp) ==
  IF resp.status = "http_error" THEN Throw(name)
  ELSE IF resp.status = "bad_json" THEN Throw("JSON")
  ELSE Return(resp.data)

Refreshes == 1..MaxRefresh

NotStarted == [pc |-> "idle", packs |-> "pending", omega |-> "pending",
               rate |-> "pending", settled |-> "no"]
Started == [NotStarted EXCEPT !.pc = "run"]

\* the page after the script has run to its end: the auto-run refresh() is in
\* flight, nothing is loaded
InitA ==
  /\ writer = NoWriter
  /\ variant = "script.js"
  /\ packs = <<>> /\ plans = <<>> /\ plexISK = Null /\ bestDollarPerPLEX = Null
  /\ tbody = Status("Loading") /\ omegaBody = Status("Loading Omega plans")
  /\ rf = [r \in Refreshes |-> IF r = 1 THEN Started ELSE NotStarted]
  /\ last = NoLast
  /\ source = "median" /\ alerts = 0 /\ arr = <<>> /\ ret = NoRet

\* REFRESH click: refresh() up to its await
ClickA(r) ==
  /\ r > 1
  /\ rf[r].pc = "idle"
  /\ rf[r - 1].pc # "idle"
  /\ rf' = [rf EXCEPT ![r] = Started]
  /\ tbody' = Status("Loading")
  /\ UNCHANGED <<variant, writer, packs, plans, plexISK, bestDollarPerPLEX, omegaBody,
                 source, alerts, last, arr, ret>>

\* what follows one of the three loads of refresh r in the same turn of the
\* event loop: the catch block when the load threw and Promise.all had not yet
\* settled, both renders when it was the last of three successes, nothing
\* otherwise.  now is rf[r] with the outcome of this load, out the outcome,
\* ps, pl, rate the globals after the load's assignment.
renderAfterFailure(out, ps, pl, rate, best) ==
  [tbody |-> Error(out.detail), omegaBody |-> Error(out.detail), best |-> best]

\* a plausible slip: on a failure, render with whatever the globals hold
renderStaleAfterFailure(out, ps, pl, rate, best) ==
  LET vt == renderValueTable(ps, rate, best)
  IN  [tbody |-> vt.tbody, omegaBody |-> renderOmegaTable(pl, rate, vt.best),
       best |-> vt.best]

\* a plausible slip: the catch block logs the error and leaves the tables
catchLogsOnly(out, ps, pl, rate, best) ==
  [tbody |-> tbody, omegaBody |-> omegaBody, best |-> best]

\* the catch block of refresh()
catchRefresh(out, ps, pl, rate, best) == renderAfterFailure(out, ps, pl, rate, best)

SettleA(r, now, out, ps, pl, rate) ==
  IF rf[r].settled # "no"
  THEN /\ rf' = [rf EXCEPT ![r] = now]
       /\ UNCHANGED <<variant, writer, tbody, omegaBody, bestDollarPerPLEX>>
  ELSE IF out.threw
  THEN LET c == catchRefresh(out, ps, pl, rate, bestDollarPerPLEX)
       IN  /\ rf' = [rf EXCEPT ![r] = [now EXCEPT !.settled = "rejected"]]
           /\ tbody' = c.tbody
           /\ omegaBody' = c.omegaBody
           /\ bestDollarPerPLEX' = c.best
  ELSE IF now.packs = "ok" /\ now.omega = "ok" /\ now.rate = "ok"
  THEN LET vt == renderValueTable(ps, rate, bestDollarPerPLEX)
       IN  /\ rf' = [rf EXCEPT ![r] = [now EXCEPT !.settled = "resolved"]]
           /\ tbody' = vt.tbody
           /\ bestDollarPerPLEX' = vt.best
           /\ omegaBody' = renderOmegaTable(pl, rate, vt.best)
  ELSE /\ rf' = [rf EXCEPT ![r] = now]
       /\ UNCHANGED <<variant, writer, tbody, omegaBody, bestDollarPerPLEX>>

Outcome(out) == IF out.threw THEN "failed" ELSE "ok"

\* the response to packs.json arrives: the rest of loadPacks()
PacksResponseA(r) ==
  /\ rf[r].pc = "run" /\ rf[r].packs = "pending"
  /\ \E resp \in FileResponses(PackLists) :
       LET out == loadFile("packs.json HTTP", resp)
           ps == IF out.threw THEN packs ELSE out.value
       IN  /\ packs' = ps
           /\ SettleA(r, [rf[r] EXCEPT !.packs = Outcome(out)], out, ps, plans, plexISK)
  /\ UNCHANGED <<variant, writer, plans, plexISK, source, alerts, last, arr, ret>>

\* the response to omega.json arrives: the rest of loadOmega()
OmegaResponseA(r) ==
  /\ rf[r].pc = "run" /\ rf[r].omega = "pending"
  /\ \E resp \in FileResponses(PlanLists) :
       LET out == loadFile("omega.json HTTP", resp)
           pl == IF out.threw THEN plans ELSE out.value
       IN  /\ plans' = pl
           /\ SettleA(r, [rf[r] EXCEPT !.omega = Outcome(out)], out, packs, pl, plexISK)
  /\ UNCHANGED <<variant, writer, packs, plexISK, source, alerts, last, arr, ret>>

\* the response of the prices endpoint arrives: the rest of fetchPLEXFromESIPrices()
PricesResponseA(r) ==
  /\ rf[r].pc = "run" /\ rf[r].rate = "pending"
  /\ \E resp \in FewPricesResponses :
       LET out == fetchPLEXFromESIPrices(resp)
           rate == IF out.threw THEN plexISK ELSE out.value
       IN  /\ plexISK' = rate
           /\ SettleA(r, [rf[r] EXCEPT !.rate = Outcome(out)], out, packs, plans, rate)
  /\ UNCHANGED <<variant, writer, packs, plans, source, alerts, last, arr, ret>>

NextA ==
  \E r \in Refreshes :
    \/ ClickA(r)
    \/ PacksResponseA(r)
    \/ OmegaResponseA(r)
    \/ PricesResponseA(r)

SpecA == InitA /\ [][NextA]_vars

-----------------------------------------------------------------------------
(* script.js, second program: sequential refresh() and the manual override, *)
(* lines 329-378 and 428-440                                                *)

\* computeRows(): the new TBODY
computeRows(ps, rate) ==
  IF Len(ps) = 0 THEN Status("No packs loaded.")
  ELSE IF Falsy(rate) THEN Status("Waiting for PLEX price")
  ELSE
    LET price == [i \in 1..Len(ps) |-> Coalesce(ps[i].sale_price_usd, ps[i].price_usd)]
        perPLEXArr == [i \in 1..Len(ps) |-> Div(price[i], ps[i].plex_amount)]
        cashPerISKArr == [i \in 1..Len(ps) |->
                            Div(price[i], Mul(ps[i].plex_amount, rate))]
        bestA == BestMarks(perPLEXArr)
        bestB == BestMarks(cashPerISKArr)
    IN  Rows([i \in 1..Len(ps) |->
               [price |-> price[i], perPLEX |-> perPLEXArr[i],
                metricB |-> cashPerISKArr[i],
                isBestA |-> bestA[i], isBestB |-> bestB[i]]])

\* a plausible slip: only negative values are refused
ManualRejectedNegativeOnly(v) == ~IsFinite(v) \/ Lt(v, Num(0))

\* if (!isFinite(v) || v <= 0)
ManualRejected(v) == ~IsFinite(v) \/ Le(v, Num(0))

\* a plausible slip: the value is stored before it is validated
setManualPLEXStoreFirst(iskPerPLEX, ps, rate, tb) ==
  LET v == ToNumber(iskPerPLEX)
  IN  IF ManualRejected(v)
      THEN [alert |-> TRUE, plexISK |-> v, tbody |-> tb]
      ELSE [alert |-> FALSE, plexISK |-> v, tbody |-> computeRows(ps, v)]

\* a plausible slip: the table is not recomputed
setManualPLEXNoRows(iskPerPLEX, ps, rate, tb) ==
  LET v == ToNumber(iskPerPLEX)
  IN  IF ManualRejected(v)
      THEN [alert |-> TRUE, plexISK |-> rate, tbody |-> tb]
      ELSE [alert |-> FALSE, plexISK |-> v, tbody |-> tb]

\* window.setManualPLEX(iskPerPLEX) with the globals ps, rate and the table tb:
\* whether it alerts, and the new plexISK and TBODY
setManualPLEX(iskPerPLEX, ps, rate, tb) ==
  LET v == ToNumber(iskPerPLEX)
  IN  IF ManualRejected(v)
      THEN [alert |-> TRUE, plexISK |-> rate, tbody |-> tb]
      ELSE [alert |-> FALSE, plexISK |-> v, tbody |-> computeRows(ps, v)]

\* what a caller may pass: nothing, null, zero, a negative number, Infinity,
\* or a rate
ManualArgs == {Undef, Null, Num(0), Num(-1), PosInf, Num(3), Num(6)}

IdleB == [pc |-> "idle", result |-> "none"]

\* the page after the script has run to its end: the auto-run refresh() waits
\* for packs.json, nothing is loaded
InitB ==
  /\ writer = NoWriter
  /\ variant = "script.js (2)"
  /\ packs = <<>> /\ plexISK = Null
  /\ tbody = Status("Loading")
  /\ rf = [r \in Refreshes |->
             IF r = 1 THEN [pc |-> "loadPacks", result |-> "none"] ELSE IdleB]
  /\ alerts = 0
  /\ last = NoLast
  /\ plans = <<>> /\ bestDollarPerPLEX = Null /\ omegaBody = Blank
  /\ source = "median" /\ arr = <<>> /\ ret = NoRet

\* refresh click: refresh() up to await loadPacks()
ClickB(r) ==
  /\ r > 1
  /\ rf[r].pc = "idle"
  /\ rf[r - 1].pc # "idle"
  /\ rf' = [rf EXCEPT ![r] = [pc |-> "loadPacks", result |-> "none"]]
  /\ tbody' = Status("Loading")
  /\ last' = [op |-> "click", r |-> r, arg |-> Null]
  /\ UNCHANGED <<variant, writer, packs, plans, plexISK, bestDollarPerPLEX, omegaBody, source,
                 alerts, arr, ret>>

\* packs.json arrives: the rest of loadPacks(), then the request for prices,
\* or the catch block
PacksResponseB(r) ==
  /\ rf[r].pc = "loadPacks"
  /\ \E resp \in FileResponses(PackLists) :
       LET out == loadFile("packs.json HTTP", resp)
       IN  IF out.threw
           THEN /\ tbody' = Error(out.detail)
                /\ rf' = [rf EXCEPT ![r] = [pc |-> "done", result |-> "failed"]]
                /\ UNCHANGED packs
           ELSE /\ packs' = out.value
                /\ rf' = [rf EXCEPT ![r] = [pc |-> "fetchPLEX", result |-> "none"]]
                /\ UNCHANGED tbody
  /\ last' = [op |-> "packs", r |-> r, arg |-> Null]
  /\ UNCHANGED <<variant, writer, plans, plexISK, bestDollarPerPLEX, omegaBody, source, alerts,
                 arr, ret>>

\* the prices arrive: the rest of fetchPLEXFromESIPrices(), then computeRows(),
\* or the catch block
PricesResponseB(r) ==
  /\ rf[r].pc = "fetchPLEX"
  /\ \E resp \in FewPricesResponses :
       LET out == fetchPLEXFromESIPrices(resp)
       IN  IF out.threw
           THEN /\ tbody' = Error(out.detail)
                /\ rf' = [rf EXCEPT ![r] = [pc |-> "done", result |-> "failed"]]
                /\ UNCHANGED plexISK
           ELSE /\ plexISK' = out.value
                /\ tbody' = computeRows(packs, out.value)
                /\ rf' = [rf EXCEPT ![r] = [pc |-> "done", result |-> "ok"]]
  /\ last' = [op |-> "rate", r |-> r, arg |-> Null]
  /\ UNCHANGED <<variant, writer, packs, plans, bestDollarPerPLEX, omegaBody, source, alerts,
                 arr, ret>>

\* a call of window.setManualPLEX(x)
SetManualPLEX(x) ==
  LET out == setManualPLEX(x, packs, plexISK, tbody)
  IN  /\ out.alert => alerts < MaxAlerts
      /\ alerts' = IF out.alert THEN alerts + 1 ELSE alerts
      /\ plexISK' = out.plexISK
      /\ tbody' = out.tbody
      /\ last' = [op |-> "setManualPLEX", r |-> 0, arg |-> x]
      /\ UNCHANGED <<variant, writer, packs, plans, bestDollarPerPLEX, omegaBody, source, rf,
                     arr, ret>>

NextB ==
  \/ \E r \in Refreshes : ClickB(r) \/ PacksResponseB(r) \/ PricesResponseB(r)
  \/ \E x \in ManualArgs : SetManualPLEX(x)

SpecB == InitB /\ [][NextB]_vars

\* what Number(x) makes of an argument the claims call finite and positive
ValidArg(x) == x.k = "fin" /\ x.n > 0

\* C3: the rate is never set (null) or a finite number > 0, whatever refreshes
\* and manual calls have happened.
C3_RatePositive ==
  plexISK = Null \/ (plexISK.k = "fin" /\ plexISK.n > 0 /\ plexISK.d > 0)

\* a refresh has failed, another has succeeded, an invalid manual value has been
\* refused and a valid one is in force
C3_Witness ==
  /\ alerts > 0
  /\ \E r \in Refreshes : rf[r].result = "failed"
  /\ \E r \in Refreshes : rf[r].result = "ok"
  /\ last.op = "setManualPLEX" /\ ValidArg(last.arg)
  /\ plexISK = last.arg

\* C9, as claimed: after setManualPLEX with a finite positive value, in any
\* state, the table shows valuation rows computed from that value.
C9_AlwaysRows ==
  (last.op = "setManualPLEX" /\ ValidArg(last.arg)) =>
    /\ plexISK = last.arg
    /\ tbody.kind = "rows"

\* C9, amended: setManualPLEX with a finite positive value stores it in
\* plexISK and recomputes the table without a fetch; with a non-empty pack
\* list the table shows one row per pack, valuated with that value, with
\* exactly one Best per metric; with an empty pack list it shows
\* 'No packs loaded.'
C9_RowsWhenPacksLoaded ==
  [][(last'.op = "setManualPLEX" /\ ValidArg(last'.arg)) =>
       /\ plexISK' = last'.arg
       /\ rf' = rf /\ packs' = packs /\ alerts' = alerts
       /\ IF Len(packs) = 0
          THEN tbody' = Status("No packs loaded.")
          ELSE /\ tbody'.kind = "rows"
               /\ Len(tbody'.rows) = Len(packs)
               /\ \A i \in 1..Len(packs) :
                    tbody'.rows[i].metricB = Div(tbody'.rows[i].perPLEX, last'.arg)
               /\ Cardinality(BadgesA(tbody')) = 1
               /\ Cardinality(BadgesB(tbody')) = 1]_vars

\* a valid manual value was given while a refresh was in flight and with packs
\* loaded: the rows are shown, valuated with it
C9_Witness ==
  /\ last.op = "setManualPLEX" /\ ValidArg(last.arg)
  /\ \E r \in Refreshes : rf[r].pc \in {"loadPacks", "fetchPLEX"}
  /\ Len(packs) > 0
  /\ tbody.kind = "rows"
  /\ plexISK = last.arg

\* C10: setManualPLEX with a value that is not a finite number > 0 raises the
\* alert and changes neither plexISK nor the table nor anything else.
C10_InvalidManualIgnored ==
  [][(last'.op = "setManualPLEX" /\ ~ValidArg(ToNumber(last'.arg))) =>
       /\ alerts' = alerts + 1
       /\ plexISK' = plexISK /\ tbody' = tbody
       /\ packs' = packs /\ rf' = rf]_vars

\* an invalid value was refused while the table showed rows
C10_Witness ==
  /\ last.op = "setManualPLEX" /\ ~ValidArg(ToNumber(last.arg))
  /\ alerts > 0
  /\ tbody.kind = "rows"
  /\ plexISK.k = "fin"

-----------------------------------------------------------------------------
(* Claims about the first program of script.js *)

Finished(r) ==
  rf[r].pc = "run" /\ rf[r].packs # "pending" /\ rf[r].omega # "pending"
    /\ rf[r].rate # "pending"

Failed(r) == "failed" \in {rf[r].packs, rf[r].omega, rf[r].rate}

\* C7, as claimed, for the auto-run refresh: when it has failed and no other
\* refresh has started, packs, plans and plexISK are as they were at load.
C7_TripleKeptOnFailure ==
  (Finished(1) /\ Failed(1) /\ \A r \in Refreshes \ {1} : rf[r].pc = "idle") =>
    /\ packs = <<>>
    /\ plans = <<>>
    /\ plexISK = Null

\* C8: the handler of refresh r in which its rate fetch has failed shows the
\* same single error row in both tables if refresh r had not settled yet, and
\* touches neither table otherwise; r is rejected from then on.
C8_RateFailureShowsError ==
  [][\A r \in Refreshes :
       (rf'[r] # rf[r] /\ rf'[r].rate = "failed") =>
          /\ rf'[r].settled = "rejected"
          /\ IF rf[r].settled = "no"
             THEN tbody'.kind = "error" /\ omegaBody' = tbody'
             ELSE tbody' = tbody /\ omegaBody' = omegaBody]_vars

\* the second refresh lost its rate fetch after the first had succeeded with
\* packs: both tables show the error although a rate and packs are at hand
C8_Witness ==
  /\ rf[1].settled = "resolved"
  /\ rf[2].rate = "failed" /\ rf[2].packs = "ok" /\ rf[2].omega = "ok"
  /\ Len(packs) > 0 /\ plexISK.k = "fin"
  /\ tbody.kind = "error" /\ omegaBody = tbody

\* the step in which Promise.all of refresh r resolves and both tables render
Resolves(r) == rf[r].settled = "no" /\ rf'[r].settled = "resolved"

\* C11, as claimed: when a refresh renders, plan rows are computed only from
\* the minimum $/PLEX of the packs that this render has valuated; with an empty
\* pack list the plan table shows the waiting message.
C11_BestFromSameCycle ==
  [][\A r \in Refreshes :
       Resolves(r) =>
         IF Len(packs') = 0
         THEN omegaBody'.kind = "status"
         ELSE omegaBody'.kind = "rows" =>
                /\ \A i \in 1..Len(packs') :
                     Le(bestDollarPerPLEX', PackRow(packs'[i], plexISK').perPLEX)
                /\ \E i \in 1..Len(packs') :
                     bestDollarPerPLEX' = PackRow(packs'[i], plexISK').perPLEX]_vars

-----------------------------------------------------------------------------
(* part_007, first program: refresh() over paginated ESI sell orders,       *)
(* lines 35-175                                                             *)

\* computeRows() of part_007 119-153, and of part_000 91-118, part_001 59-98,
\* part_010 70-97 and part_011 77-105: Best by Math.min and the tolerance 1e-12
computeRowsMathMin(ps, rate) ==
  IF Len(ps) = 0 THEN Status("No packs loaded.")
  ELSE IF Falsy(rate) THEN Status("Waiting for PLEX price")
  ELSE
    LET price == [i \in 1..Len(ps) |-> Coalesce(ps[i].sale_price_usd, ps[i].price_usd)]
        perPLEXArr == [i \in 1..Len(ps) |-> Div(price[i], ps[i].plex_amount)]
        cashPerISKArr == [i \in 1..Len(ps) |->
                            Div(price[i], Mul(ps[i].plex_amount, rate))]
        bestA == BestMarksMathMin(perPLEXArr)
        bestB == BestMarksMathMin(cashPerISKArr)
    IN  Rows([i \in 1..Len(ps) |->
               [price |-> price[i], perPLEX |-> perPLEXArr[i],
                metricB |-> cashPerISKArr[i],
                isBestA |-> bestA[i], isBestB |-> bestB[i]]])

\* one page of sell orders: none, only unusable prices, or usable ones
OrderPages ==
  {<<>>,
   <<[price |-> Num(0)], [price |-> Undef]>>,
   <<[price |-> Num(7)], [price |-> Num(-2)], [price |-> Num(1)]>>}

\* a response to the request for one page: its X-Pages header (one page, or
\* the most pages) and its orders
PageResponses ==
  {[status |-> "http_error", pages |-> 1, data |-> <<>>]}
    \cup {[status |-> "ok", pages |-> n, data |-> d] : n \in {1, MaxPages}, d \in OrderPages}

IdleC == [pc |-> "idle", result |-> "none", total |-> 0, orders |-> <<>>]

\* last, when the handler that ran was not the one that completed the orders
OtherC == [op |-> "other", r |-> 0, arg |-> <<>>]

\* a plausible slip: the catch block logs the error and shows nothing
catchLogOnly(detail, tb) == tb

\* the catch block of refresh(): showStatus(`Error: ${e.message}`, true)
catchRefreshC(detail, tb) == Error(detail)

\* for (const arr of pages) orders = orders.concat(arr), pages p..total
RECURSIVE ConcatPages(_, _, _)
ConcatPages(rest, p, total) ==
  IF p > total THEN <<>> ELSE rest[p] \o ConcatPages(rest, p + 1, total)

\* the page after the script has run to its end: the auto-run refresh() waits
\* for packs.json
InitC ==
  /\ writer = NoWriter
  /\ variant = "part_007"
  /\ packs = <<>> /\ plexISK = Null
  /\ tbody = Status("Loading")
  /\ source = "median"
  /\ rf = [r \in Refreshes |->
             IF r = 1 THEN [IdleC EXCEPT !.pc = "loadPacks"] ELSE IdleC]
  /\ last = OtherC
  /\ plans = <<>> /\ bestDollarPerPLEX = Null /\ omegaBody = Blank
  /\ alerts = 0 /\ arr = <<>> /\ ret = NoRet

\* refresh click, or a change of the region: refresh() up to await loadPacks()
ClickC(r) ==
  /\ r > 1
  /\ rf[r].pc = "idle"
  /\ rf[r - 1].pc # "idle"
  /\ rf' = [rf EXCEPT ![r] = [IdleC EXCEPT !.pc = "loadPacks"]]
  /\ tbody' = Status("Loading")
  /\ writer' = [writer EXCEPT !.tbody = r]
  /\ last' = OtherC
  /\ UNCHANGED <<variant, packs, plans, plexISK, bestDollarPerPLEX, omegaBody, source,
                 alerts, arr, ret>>

\* the user picks another aggregation: the change event calls refresh()
ChangeSourceC(r, src) ==
  /\ r > 1
  /\ rf[r].pc = "idle"
  /\ rf[r - 1].pc # "idle"
  /\ src # source
  /\ source' = src
  /\ rf' = [rf EXCEPT ![r] = [IdleC EXCEPT !.pc = "loadPacks"]]
  /\ tbody' = Status("Loading")
  /\ writer' = [writer EXCEPT !.tbody = r]
  /\ last' = OtherC
  /\ UNCHANGED <<variant, packs, plans, plexISK, bestDollarPerPLEX, omegaBody,
                 alerts, arr, ret>>

\* refresh r ends in its catch block
FailC(r, detail, w) ==
  /\ rf' = [rf EXCEPT ![r] = [IdleC EXCEPT !.pc = "done", !.result = "failed"]]
  /\ tbody' = catchRefreshC(detail, tbody)
  /\ writer' = [w EXCEPT !.tbody = r]
  /\ UNCHANGED plexISK

\* the orders are complete: the rest of fetchPlexISK(), then computeRows(),
\* or the catch block
FinishC(r, orders) ==
  \E out \in {AggregateOrders(orders, source)} :
      /\ last' = [op |-> "orders", r |-> r, arg |-> orders]
      /\ IF out.threw THEN FailC(r, out.detail, writer)
         ELSE /\ plexISK' = out.value
              /\ writer' = [writer EXCEPT !.plexISK = r, !.tbody = r]
              /\ tbody' = computeRowsMathMin(packs, out.value)
              /\ rf' = [rf EXCEPT ![r] = [IdleC EXCEPT !.pc = "done", !.result = "ok"]]

\* packs.json arrives: the rest of loadPacks(), validateInputs() and the
\* request for page 1, or the catch block
PacksResponseC(r) ==
  /\ rf[r].pc = "loadPacks"
  /\ \E resp \in FileResponses(PackLists), regionIsNumeric \in BOOLEAN :
       LET out == loadFile("Failed to load packs.json", resp)
       IN  IF out.threw
           THEN FailC(r, out.detail, writer) /\ UNCHANGED packs
           ELSE /\ packs' = out.value
                /\ IF regionIsNumeric
                   THEN /\ rf' = [rf EXCEPT ![r].pc = "page1"]
                        /\ writer' = [writer EXCEPT !.packs = r]
                        /\ UNCHANGED <<tbody, plexISK>>
                   ELSE FailC(r, "Region must be a numeric ID",
                              [writer EXCEPT !.packs = r])
  /\ last' = OtherC
  /\ UNCHANGED <<variant, plans, bestDollarPerPLEX, omegaBody, source, alerts, arr, ret>>

\* page 1 arrives: the requests for pages 2..X-Pages, or the rest of
\* fetchPlexISK() when there is one page, or the catch block
Page1ResponseC(r) ==
  /\ rf[r].pc = "page1"
  /\ \E resp \in PageResponses :
       IF resp.status # "ok"
       THEN FailC(r, "ESI HTTP for page 1", writer) /\ last' = OtherC
       ELSE IF resp.pages > 1
       THEN /\ rf' = [rf EXCEPT ![r].pc = "pages", ![r].total = resp.pages,
                                ![r].orders = resp.data]
            /\ last' = OtherC
            /\ UNCHANGED <<tbody, plexISK, writer>>
       ELSE FinishC(r, resp.data)
  /\ UNCHANGED <<variant, packs, plans, bestDollarPerPLEX, omegaBody, source, alerts,
                 arr, ret>>

\* Promise.all over pages 2..X-Pages settles.  The pages that arrive before it
\* settles change nothing but the promises' own results, so their arrivals are
\* folded into the one that settles it: the first page that fails rejects it,
\* the last of the pages, all successful, resolves it with the pages in page
\* order.
PagesSettleC(r) ==
  /\ rf[r].pc = "pages"
  /\ \/ FailC(r, "ESI HTTP for page", writer) /\ last' = OtherC
     \/ \E rest \in [2..rf[r].total -> OrderPages] :
          FinishC(r, rf[r].orders \o ConcatPages(rest, 2, rf[r].total))
  /\ UNCHANGED <<variant, packs, plans, bestDollarPerPLEX, omegaBody, source, alerts,
                 arr, ret>>

NextC ==
  \E r \in Refreshes :
    \/ ClickC(r)
    \/ \E src \in Sources : ChangeSourceC(r, src)
    \/ PacksResponseC(r)
    \/ Page1ResponseC(r)
    \/ PagesSettleC(r)

SpecC == InitC /\ [][NextC]_vars

NoneUsable(orders) ==
  \A i \in 1..Len(orders) : ~(orders[i].price.k = "fin" /\ orders[i].price.n > 0)

\* C5: when all pages have arrived and no price is finite and positive, the
\* refresh ends in its catch block under every policy: plexISK keeps its value
\* and the table shows an error row.
C5_NoPricesIsError ==
  [][(last'.op = "orders" /\ NoneUsable(last'.arg)) =>
       /\ rf[last'.r].pc \in {"page1", "pages"}
       /\ rf'[last'.r].pc = "done" /\ rf'[last'.r].result = "failed"
       /\ plexISK' = plexISK
       /\ tbody'.kind = "error"]_vars

\* a refresh ended on two pages of unusable prices, under the policy min,
\* after an earlier refresh had set a rate: the rate is still there and the
\* table shows the error
C5_Witness ==
  /\ last.op = "orders"
  /\ Len(last.arg) > 2
  /\ NoneUsable(last.arg)
  /\ source = "min"
  /\ rf[last.r].result = "failed"
  /\ plexISK.k = "fin"
  /\ tbody.kind = "error"

-----------------------------------------------------------------------------
(* Plan valuation of part_008 (lines 110-176) and part_012 (lines 89-151) *)

\* the list packs.map(p => price / p.plex_amount)
PerPLEXList(ps) ==
  [i \in 1..Len(ps) |->
     Div(Coalesce(ps[i].sale_price_usd, ps[i].price_usd), ps[i].plex_amount)]

\* computePackRows() of part_008: the new TBODY and the new bestPerPLEX
computePackRows(ps, rate, oldBest) ==
  IF Len(ps) = 0 \/ Falsy(rate)
  THEN [tbody |-> computeRowsMathMin(ps, rate), best |-> oldBest]
  ELSE [tbody |-> computeRowsMathMin(ps, rate), best |-> MathMinOf(PerPLEXList(ps), 1)]

\* renderOmegaTable() of part_008: the new OTBODY
renderOmegaTable008(pl, best) ==
  IF Len(pl) = 0 THEN Status("No omega plans loaded.")
  ELSE IF ~IsFinite(best) THEN Status("Waiting for packs to compute best $/PLEX")
  ELSE Rows([i \in 1..Len(pl) |->
               [label |-> pl[i].label, cash |-> ToNumber(pl[i].cash_usd),
                perPLEXUsed |-> best,
                viaPlex |-> Mul(pl[i].plex_amount, best)]])

\* computeOmega() of part_012: the new OMEGA_BODY
computeOmega012(pl, rate, ps) ==
  IF Len(pl) = 0 THEN Status("No omega plans.")
  ELSE IF Falsy(rate) THEN Status("Waiting for PLEX price")
  ELSE
    LET best == MathMinOf(PerPLEXList(ps), 1)
        months == [i \in 1..Len(pl) |->
                     ToNumber(Coalesce(pl[i].months, monthsFromLabel(pl[i].label)))]
    IN  Rows([i \in 1..Len(pl) |->
               [label |-> pl[i].label, cash |-> ToNumber(pl[i].cash_usd),
                perPLEXUsed |-> best,
                viaPlex |-> Div(Mul(best, pl[i].plex_cost), months[i])]])

\* omega.json of part_008 and of part_012
Plans008 ==
  {<<>>,
   <<[label |-> "1 Month", months |-> Num(1), cash_usd |-> Num(20), plex_amount |-> Num(5)],
     [label |-> "3 Months", months |-> Num(3), cash_usd |-> Num(48), plex_amount |-> Num(12)]>>}
Plans012 ==
  {<<>>,
   <<[label |-> "1 Month", months |-> Undef, cash_usd |-> Num(20), plex_cost |-> Num(5)],
     [label |-> "3 Months", months |-> Num(3), cash_usd |-> Num(48), plex_cost |-> Num(12)]>>}

\* packs.json: empty, one pack without an amount of PLEX, two priced packs
PlanCyclePacks == PackLists \cup {<<PackB>>, <<PackC, PackA>>}

\* the loads of a first refresh have succeeded: packs, the plans and the rate
\* are assigned, no pack has been valuated yet, the tables show 'Loading'
InitPlans ==
  /\ writer = NoWriter
  /\ variant \in {"part_008", "part_012"}
  /\ packs \in PlanCyclePacks
  /\ plans \in (IF variant = "part_008" THEN Plans008 ELSE Plans012)
  /\ plexISK \in GoodRates
  /\ bestDollarPerPLEX = Null
  /\ tbody = Status("Loading") /\ omegaBody = Status("Loading")
  /\ ret = NoRet
  /\ last = NoLast
  /\ source = "median" /\ alerts = 0 /\ rf = <<>> /\ arr = <<>>

\* part_008, the last handler of the chain of refresh(): computePackRows();
\* renderOmegaTable()
RenderTables008 ==
  /\ variant = "part_008"
  /\ ~ret.done
  /\ LET out == computePackRows(packs, plexISK, bestDollarPerPLEX)
     IN  /\ tbody' = out.tbody
         /\ bestDollarPerPLEX' = out.best
         /\ omegaBody' = renderOmegaTable008(plans, out.best)
  /\ ret' = [done |-> TRUE, v |-> 0]
  /\ UNCHANGED <<variant, writer, packs, plans, plexISK, source, alerts, rf, last, arr>>

\* part_012, refresh() after await fetchPLEXFromESIPrices(): computePacks();
\* computeOmega()
RenderTables012 ==
  /\ variant = "part_012"
  /\ ~ret.done
  /\ tbody' = renderValueTable(packs, plexISK, Null).tbody
  /\ omegaBody' = computeOmega012(plans, plexISK, packs)
  /\ ret' = [done |-> TRUE, v |-> 0]
  /\ UNCHANGED <<variant, writer, packs, plans, plexISK, bestDollarPerPLEX, source,
                 alerts, rf, last, arr>>

\* the next refresh: the tables show 'Loading' again and loadPacks() assigns
\* the list (the plans and the rate are loaded as before)
NextCycle(ps) ==
  /\ ret.done
  /\ last.r < MaxRefresh
  /\ packs' = ps
  /\ tbody' = Status("Loading") /\ omegaBody' = Status("Loading")
  /\ ret' = NoRet
  /\ last' = [last EXCEPT !.r = last.r + 1]
  /\ UNCHANGED <<variant, writer, plans, plexISK, bestDollarPerPLEX, source, alerts,
                 rf, arr>>

NextPlans ==
  \/ RenderTables008
  \/ RenderTables012
  \/ \E ps \in PlanCyclePacks : NextCycle(ps)

SpecPlans == InitPlans /\ [][NextPlans]_vars

\* C12, as claimed: after the tables have been rendered in a cycle whose pack
\* list is empty, the plan table holds a status message, not plan rows.
C12_NoPacksIsWaiting ==
  (ret.done /\ Len(packs) = 0) => omegaBody.kind = "status"

\* every refresh that was triggered has completed, and there were two at least
AllCompleted ==
  /\ rf[2].pc = "done"
  /\ \A r \in Refreshes : rf[r].pc \in {"idle", "done"}

\* the refresh that was triggered last
LastTriggered == CHOOSE r \in Refreshes :
  rf[r].pc # "idle" /\ \A q \in Refreshes : q > r => rf[q].pc = "idle"

\* C13, as claimed (part_007): once every triggered refresh has completed, the
\* table was written by the refresh triggered last, and when that refresh
\* succeeded so were packs and plexISK.
C13_LastRefreshWins ==
  AllCompleted =>
    /\ writer.tbody = LastTriggered
    /\ rf[LastTriggered].result = "ok" =>
         (writer.packs = LastTriggered /\ writer.plexISK = LastTriggered)

-----------------------------------------------------------------------------
(* script.js, first program, when every request completes *)

\* every request of every refresh is answered or fails in the end
SpecALive ==
  /\ SpecA
  /\ \A r \in Refreshes :
       /\ WF_vars(PacksResponseA(r))
       /\ WF_vars(OmegaResponseA(r))
       /\ WF_vars(PricesResponseA(r))

\* C14: every refresh that is in flight settles, and when it has settled the
\* pack table shows rows, a placeholder message or an error, not 'Loading';
\* with no refresh unsettled the table never shows 'Loading'.
C14_LeavesLoading ==
  /\ \A r \in Refreshes :
       (rf[r].pc = "run" /\ rf[r].settled = "no")
         ~> (rf[r].settled # "no" /\ tbody # Status("Loading"))
  /\ []((\A r \in Refreshes : rf[r].pc = "run" => rf[r].settled # "no")
          => tbody # Status("Loading"))

\* the second refresh was rejected and shows its error while one of its
\* requests is still unanswered
C14_Witness ==
  /\ rf[2].settled = "rejected"
  /\ "pending" \in {rf[2].packs, rf[2].omega, rf[2].rate}
  /\ rf[1].settled # "no"
  /\ tbody.kind = "error"

-----------------------------------------------------------------------------
(* part_005: sequential refresh() with validated loads, lines 56-210 *)

\* computeOmega(): the new OMEGA_BODY
computeOmega005(pl, best) ==
  IF Len(pl) = 0 THEN Status("No Omega data.")
  ELSE IF ~NumberIsFinite(best) \/ Le(best, Num(0))
  THEN Status("Waiting for best $/PLEX from packs")
  ELSE
    LET viaPLEXusd == [i \in 1..Len(pl) |-> Mul(pl[i].plex_cost, best)]
        bestIdx == indexOfStrictMin(viaPLEXusd)
    IN  Rows([i \in 1..Len(pl) |->
               [label |-> pl[i].label, cashUSD |-> ToNumber(pl[i].cash_usd),
                plexExchangeTotalUSD |-> viaPLEXusd[i],
                isBest |-> (i - 1) = bestIdx]])

\* loadPacks() / loadOmegaPlans() on a response: the global is assigned before
\* the list is validated.  The value assigned, and how the function ends.
loadValidated(name, resp, old) ==
  LET got == loadFile(name, resp)
  IN  IF got.threw THEN [global |-> old, out |-> got]
      ELSE IF Len(got.value) = 0
      THEN [global |-> got.value, out |-> Throw(name)]
      ELSE [global |-> got.value, out |-> got]

IdleE == [pc |-> "idle", result |-> "none"]
LoadingOmega == Status("Loading Omega plans")

\* the page after the script has run to its end: the auto-run refresh() waits
\* for packs.json
InitE ==
  /\ variant = "part_005"
  /\ writer = NoWriter
  /\ packs = <<>> /\ plans = <<>> /\ plexISK = Null /\ bestDollarPerPLEX = Null
  /\ tbody = Status("Loading") /\ omegaBody = LoadingOmega
  /\ rf = [r \in Refreshes |->
             IF r = 1 THEN [IdleE EXCEPT !.pc = "loadPacks"] ELSE IdleE]
  /\ last = NoLast
  /\ source = "median" /\ alerts = 0 /\ arr = <<>> /\ ret = NoRet

\* refresh click: refresh() up to await loadPacks()
ClickE(r) ==
  /\ r > 1
  /\ rf[r].pc = "idle"
  /\ rf[r - 1].pc # "idle"
  /\ rf' = [rf EXCEPT ![r].pc = "loadPacks"]
  /\ tbody' = Status("Loading")
  /\ omegaBody' = LoadingOmega
  /\ UNCHANGED <<variant, writer, packs, plans, plexISK, bestDollarPerPLEX,
                 source, alerts, last, arr, ret>>

\* the catch block of refresh(): one table gets the error, chosen by what the
\* globals hold
catchRefreshE(r, detail, ps, pl) ==
  /\ rf' = [rf EXCEPT ![r] = [pc |-> "done", result |-> "failed"]]
  /\ IF Len(ps) = 0 THEN tbody' = Error(detail) /\ UNCHANGED omegaBody
     ELSE IF Len(pl) = 0 THEN omegaBody' = Error(detail) /\ UNCHANGED tbody
     ELSE tbody' = Error(detail) /\ UNCHANGED omegaBody

\* packs.json arrives: the rest of loadPacks(), then the request for
\* omega.json, or the catch block
PacksResponseE(r) ==
  /\ rf[r].pc = "loadPacks"
  /\ \E resp \in FileResponses(PackLists) :
       LET l == loadValidated("packs.json", resp, packs)
       IN  /\ packs' = l.global
           /\ last' = [op |-> "packs.json", r |-> r, arg |-> resp]
           /\ IF l.out.threw
              THEN catchRefreshE(r, l.out.detail, l.global, plans)
              ELSE /\ rf' = [rf EXCEPT ![r].pc = "loadOmega"]
                   /\ UNCHANGED <<tbody, omegaBody>>
  /\ UNCHANGED <<variant, writer, plans, plexISK, bestDollarPerPLEX, source,
                 alerts, arr, ret>>

\* omega.json arrives: the rest of loadOmegaPlans(), then the request for the
\* prices, or the catch block
OmegaResponseE(r) ==
  /\ rf[r].pc = "loadOmega"
  /\ \E resp \in FileResponses(PlanLists) :
       LET l == loadValidated("omega.json", resp, plans)
       IN  /\ plans' = l.global
           /\ IF l.out.threw
              THEN catchRefreshE(r, l.out.detail, packs, l.global)
              ELSE /\ rf' = [rf EXCEPT ![r].pc = "fetchPLEX"]
                   /\ UNCHANGED <<tbody, omegaBody>>
  /\ UNCHANGED <<variant, writer, packs, plexISK, bestDollarPerPLEX, source,
                 alerts, last, arr, ret>>

\* the prices arrive: the rest of fetchPLEXFromESIPrices(), computeRows() and
\* computeOmega(), or the catch block
PricesResponseE(r) ==
  /\ rf[r].pc = "fetchPLEX"
  /\ \E resp \in FewPricesResponses :
       LET out == fetchPLEXFromESIPrices(resp)
           best == renderValueTable(packs, out.value, bestDollarPerPLEX).best
       IN  IF out.threw
           THEN /\ catchRefreshE(r, out.detail, packs, plans)
                /\ UNCHANGED <<plexISK, bestDollarPerPLEX>>
           ELSE /\ plexISK' = out.value
                /\ tbody' = computeRows(packs, out.value)
                /\ bestDollarPerPLEX' = best
                /\ omegaBody' = computeOmega005(plans, best)
                /\ rf' = [rf EXCEPT ![r] = [pc |-> "done", result |-> "ok"]]
  /\ UNCHANGED <<variant, writer, packs, plans, source, alerts, last, arr, ret>>

NextE ==
  \E r \in Refreshes :
    \/ ClickE(r)
    \/ PacksResponseE(r)
    \/ OmegaResponseE(r)
    \/ PricesResponseE(r)

SpecE == InitE /\ [][NextE]_vars

\* C15, as claimed: the step in which a refresh fails leaves neither table
\* showing its loading placeholder.
C15_NoLoadingAfterFailure ==
  [][\A r \in Refreshes :
       (rf[r].result = "none" /\ rf'[r].result = "failed") =>
          /\ tbody' # Status("Loading")
          /\ omegaBody' # LoadingOmega]_vars

-----------------------------------------------------------------------------
(* Rate adapters with fallback and pagination: part_002 (lines 66-152 and   *)
(* 199-218), part_003 (54-114), part_004 (64-117), part_009 (65-173)        *)

\* largest X-Pages a market answers with
MaxDeclared == 5

\* let pagesCap = 15 (part_002) and maxPages = 4 (part_009)
PagesCap002 == 15
MaxPages009 == 4

\* typeof v === 'number'
IsNumberType(v) == v.k \notin {"null", "undef"}

\* fetchPlexFromA4E(regionId) of part_002 on a response
fetchPlexFromA4E(resp) ==
  IF resp.status # "ok" THEN Throw("Adam4Eve market_prices HTTP")
  ELSE IF ~resp.isArray \/ Len(resp.data) = 0
  THEN Throw("Adam4Eve market_prices returned an empty array.")
  ELSE
    LET hits == {i \in 1..Len(resp.data) : ToNumber(resp.data[i].type_id) = Num(TYPE_PLEX)}
        row == IF hits = {} THEN resp.data[1]
               ELSE resp.data[CHOOSE i \in hits : \A j \in hits : i <= j]
        sell == ToNumber(row.sell_price)
    IN  IF ~IsFinite(sell) \/ Le(sell, Num(0))
        THEN Throw("Adam4Eve sell_price missing or zero.")
        ELSE Return(sell)

\* extractFromFuzzwork(obj, sourceKey) of part_009: the sell node or null
extractFromFuzzwork(obj, sourceKey) ==
  IF ~obj.hasNode THEN Null
  ELSE LET val == obj.sell[sourceKey]
       IN  IF ~IsNumberType(val) \/ ~IsFinite(val) \/ Le(val, Num(0))
           THEN Null ELSE obj.sell

\* tryFuzzwork(region, sourceKey) of part_009 on a response: null or chosen
tryFuzzwork(resp, sourceKey) ==
  IF resp.status # "ok" THEN Throw("Fuzzwork HTTP")
  ELSE LET vals == extractFromFuzzwork(resp.data, sourceKey)
       IN  IF vals = Null THEN Return(Null)
           ELSE LET chosen == vals[sourceKey]
                IN  IF ~IsNumberType(chosen) \/ ~IsFinite(chosen) \/ Le(chosen, Num(0))
                    THEN Return(Null) ELSE Return(chosen)

\* a plausible slip: whatever the first source returned without throwing is used
UseFirstUnlessThrown(out) == ~out.threw

\* the first source settles the rate: fetchPlexFromA4E did not throw
\* (part_002 206-211); tryFuzzwork returned a finite chosen > 0 (part_009
\* 154-163)
UseFirst(out) ==
  /\ ~out.threw
  /\ out.value # Null
  /\ IsNumberType(out.value) /\ IsFinite(out.value) /\ Positive(out.value)

\* the answers of Adam4Eve and of Fuzzwork
A4EResponses ==
  {[status |-> "http_error", isArray |-> TRUE, data |-> <<>>],
   [status |-> "ok", isArray |-> TRUE, data |-> <<>>],
   [status |-> "ok", isArray |-> TRUE,
    data |-> <<[type_id |-> Num(TYPE_PLEX), sell_price |-> Num(0)]>>],
   [status |-> "ok", isArray |-> TRUE,
    data |-> <<[type_id |-> Num(34), sell_price |-> Num(8)]>>],
   [status |-> "ok", isArray |-> TRUE,
    data |-> <<[type_id |-> Num(34), sell_price |-> Num(8)],
               [type_id |-> Num(TYPE_PLEX), sell_price |-> Num(3)]>>]}

FuzzworkSell(m, a, n) == [median |-> m, avg |-> a, min |-> n]
FuzzworkResponses ==
  {[status |-> "http_error", data |-> [hasNode |-> FALSE, sell |-> FuzzworkSell(Null, Null, Null)]],
   [status |-> "ok", data |-> [hasNode |-> FALSE, sell |-> FuzzworkSell(Null, Null, Null)]],
   [status |-> "ok", data |-> [hasNode |-> TRUE, sell |-> FuzzworkSell(Num(0), Num(0), Num(0))]],
   [status |-> "ok", data |-> [hasNode |-> TRUE, sell |-> FuzzworkSell(Num(3), Undef, Num(2))]]}

\* the first source of the variant on its answer
FirstSource(v, resp, sourceKey) ==
  IF v = "part_002" THEN fetchPlexFromA4E(resp) ELSE tryFuzzwork(resp, sourceKey)

FirstResponses(v) == IF v = "part_002" THEN A4EResponses ELSE FuzzworkResponses

\* an answer of the orders endpoint for page p: HTTP 500, HTTP 404, an empty
\* list, one order, or one order and one order without a usable price; xp is
\* its X-Pages header, -1 for none
PageKinds == {"error", "notfound", "empty", "high", "low"}

PageOf(kind, p, xp) ==
  CASE kind = "error" -> [status |-> "error", data |-> <<>>, xPages |-> xp]
    [] kind = "notfound" -> [status |-> "notfound", data |-> <<>>, xPages |-> xp]
    [] kind = "empty" -> [status |-> "ok", data |-> <<>>, xPages |-> xp]
    [] kind = "high" ->
         [status |-> "ok", xPages |-> xp,
          data |-> <<[order_id |-> 10 * p + 1, price |-> Num(7)]>>]
    [] OTHER ->
         [status |-> "ok", xPages |-> xp,
          data |-> <<[order_id |-> 10 * p + 1, price |-> Num(1)],
                     [order_id |-> 10 * p + 2, price |-> Num(0)]>>]

\* the answer for page p of the market m: past its last page there is none
PageAt(m, p) == IF p <= Len(m) THEN m[p] ELSE PageOf("notfound", p, -1)

\* the markets: X-Pages pages, each answered in one of the ways above
Markets ==
  UNION {{[p \in 1..n |-> PageOf(k[p], p, n)] : k \in [1..n -> PageKinds]} :
           n \in 1..MaxDeclared}

\* the orders of pages p..q of the market m, in page order
RECURSIVE PagesFrom(_, _, _)
PagesFrom(m, p, q) ==
  IF p > q THEN <<>> ELSE m[p].data \o PagesFrom(m, p + 1, q)

\* Math.min(a, b) on page counts
MinInt(a, b) == IF a < b THEN a ELSE b

\* a plausible slip: the header replaces the cap
pagesCapFromHeader(cap, xp) == IF xp = -1 THEN cap ELSE xp

\* if (pagesHdr && /^\d+$/.test(pagesHdr)) pagesCap = Math.min(pagesCap,
\* Number(pagesHdr)) (part_002 123-126)
pagesCapAfter(cap, xp) == IF xp = -1 THEN cap ELSE MinInt(cap, xp)

\* the end of fetchPlexFromESI_MinSell (part_002 143-150)
minSell002(prices) ==
  IF Len(prices) = 0
  THEN Throw("No valid sell prices returned by ESI (prices array is empty).")
  ELSE Return(MathMinOf(prices, 1))

\* the aggregation of fetchPlexISK_ESI in part_003 (92-112)
aggregate003(prices, src) ==
  IF Len(prices) = 0
  THEN Throw("No valid sell prices returned by ESI (prices array is empty).")
  ELSE LET st == stats(prices)
           value == CASE src = "min" -> MathMinOf(prices, 1)
                      [] src = "avg" -> st.avg
                      [] OTHER -> st.median
       IN  IF ~NumberIsFinite(value) \/ Le(value, Num(0))
           THEN Throw("Price feed returned zero or invalid value after aggregation.")
           ELSE Return(value)

\* orders.map(o => o.price).filter(x => typeof x === 'number' && isFinite(x)
\* && x > 0) of tryEsi (part_009 131-133)
RECURSIVE NumericPrices(_)
NumericPrices(orders) ==
  IF Len(orders) = 0 THEN <<>>
  ELSE LET x == orders[1].price
       IN  IF IsNumberType(x) /\ IsFinite(x) /\ Positive(x)
           THEN <<x>> \o NumericPrices(Tail(orders))
           ELSE NumericPrices(Tail(orders))

\* tryEsi on the orders fetchAllEsiSellOrders returned, and the check of
\* fetchPlexISK on its result (part_009 129-139, 165-170)
rateFromEsi009(orders, sourceKey) ==
  LET prices == NumericPrices(orders)
  IN  IF Len(prices) = 0
      THEN Throw("Unable to determine PLEX sell price from Fuzzwork or ESI.")
      ELSE LET st == stats(prices)
               chosen == CASE sourceKey = "avg" -> st.avg
                           [] sourceKey = "min" -> st.min
                           [] OTHER -> st.median
           IN  IF ~(IsNumberType(chosen) /\ IsFinite(chosen) /\ Positive(chosen))
               THEN Throw("Unable to determine PLEX sell price from Fuzzwork or ESI.")
               ELSE Return(chosen)

FallbackVariants == {"part_002", "part_009"}
AdapterVariants == {"part_002", "part_003", "part_004", "part_009"}

NoFirst == [threw |-> FALSE, detail |-> "pending", value |-> Null]

\* the refresh before any rate source has answered
IdleF == [pc |-> "first", first |-> NoFirst, asked |-> {}, page |-> 0, cap |-> 0,
          prices |-> <<>>, orders |-> <<>>, got |-> {}, result |-> "none"]

\* the rate an earlier refresh left in plexISK
OldRateF == Num(9)

\* refresh() after loadPacks(): the first request for the rate is in flight
InitF ==
  /\ variant \in AdapterVariants
  /\ arr \in Markets
  /\ source \in (IF variant = "part_002" THEN {"min"} ELSE Sources)
  /\ plexISK = OldRateF
  /\ packs = <<PackC, PackA>>
  /\ tbody = Status("Loading")
  /\ rf = CASE variant \in FallbackVariants -> IdleF
            [] variant = "part_004" ->
                 [IdleF EXCEPT !.pc = "seq", !.asked = {1}, !.page = 1]
            [] OTHER -> [IdleF EXCEPT !.pc = "page1", !.asked = {1}, !.page = 1]
  /\ plans = <<>> /\ bestDollarPerPLEX = Null /\ omegaBody = Blank
  /\ alerts = 0 /\ last = NoLast /\ ret = NoRet /\ writer = NoWriter

\* the rest of refresh() once the rate fetch has returned or thrown:
\* computeRows(), or the catch block
SettleF(out, r) ==
  IF out.threw
  THEN /\ tbody' = Error(out.detail)
       /\ rf' = [r EXCEPT !.pc = "done", !.result = "failed"]
       /\ UNCHANGED plexISK
  ELSE /\ plexISK' = out.value
       /\ tbody' = computeRowsMathMin(packs, out.value)
       /\ rf' = [r EXCEPT !.pc = "done", !.result = "ok"]

FrozenF == UNCHANGED <<variant, writer, packs, plans, bestDollarPerPLEX, omegaBody,
                       source, alerts, last, arr, ret>>

\* the first source answers (part_002 206-211, part_009 154-163): its value is
\* taken, or the first page of the ESI orders is requested
FirstSourceResponse ==
  /\ rf.pc = "first"
  /\ \E resp \in FirstResponses(variant) :
       \E out \in {FirstSource(variant, resp, source)} :
         /\ IF UseFirst(out)
            THEN SettleF(out, [rf EXCEPT !.first = out])
            ELSE /\ rf' = [rf EXCEPT !.pc = IF variant = "part_002" THEN "seq" ELSE "page1",
                                     !.first = out, !.asked = {1}, !.page = 1,
                                     !.cap = PagesCap002]
                 /\ UNCHANGED <<plexISK, tbody>>
         /\ last' = [op |-> "first", r |-> 0, arg |-> resp]
  /\ UNCHANGED <<variant, writer, packs, plans, bestDollarPerPLEX, omegaBody,
                 source, alerts, arr, ret>>

\* one turn of the loop of fetchPlexFromESI_MinSell (part_002 103-141)
PageResponse002 ==
  /\ variant = "part_002" /\ rf.pc = "seq"
  /\ LET res == PageAt(arr, rf.page)
         pagesCap == pagesCapAfter(rf.cap, res.xPages)
         prices == rf.prices \o ValidPrices(res.data)
     IN  CASE res.status = "notfound" -> SettleF(minSell002(rf.prices), rf)
           [] res.status = "error" ->
                SettleF(Throw("ESI orders HTTP (page)"), rf)
           [] Len(res.data) = 0 ->
                SettleF(minSell002(rf.prices), [rf EXCEPT !.cap = pagesCap])
           [] OTHER ->
                IF rf.page + 1 <= pagesCap
                THEN /\ rf' = [rf EXCEPT !.page = rf.page + 1, !.cap = pagesCap,
                                         !.prices = prices,
                                         !.asked = @ \cup {rf.page + 1}]
                     /\ UNCHANGED <<plexISK, tbody>>
                ELSE SettleF(minSell002(prices),
                             [rf EXCEPT !.cap = pagesCap, !.prices = prices])
  /\ FrozenF

\* one page of fetchAllSellOrders arrives (part_004 64-85), and after the last
\* one the rest of fetchPlexISK_ESI (87-117)
PageResponse004 ==
  /\ variant = "part_004" /\ rf.pc = "seq"
  /\ LET res == arr[rf.page]
         orders == rf.orders \o res.data
     IN  IF res.status # "ok"
         THEN SettleF(Throw("ESI orders page failed"), rf)
         ELSE IF rf.page < Len(arr)
         THEN /\ rf' = [rf EXCEPT !.page = rf.page + 1, !.orders = orders,
                                  !.asked = @ \cup {rf.page + 1}]
              /\ UNCHANGED <<plexISK, tbody>>
         ELSE SettleF(AggregateOrders(orders, source), [rf EXCEPT !.orders = orders])
  /\ FrozenF

\* the first page of fetchPlexISK_ESI arrives (part_003 58-87): pages
\* 2..X-Pages are requested together
Page1Response003 ==
  /\ variant = "part_003" /\ rf.pc = "page1"
  /\ LET res == arr[1]
         prices == ValidPrices(res.data)
     IN  IF res.status # "ok"
         THEN SettleF(Throw("ESI orders failed"), rf)
         ELSE IF Len(arr) = 1
         THEN SettleF(aggregate003(prices, source), [rf EXCEPT !.prices = prices])
         ELSE /\ rf' = [rf EXCEPT !.pc = "rest", !.prices = prices,
                                  !.asked = 1..Len(arr)]
              /\ UNCHANGED <<plexISK, tbody>>
  /\ FrozenF

\* Promise.all(fetches) settles (part_003 89-112): it rejects when a page
\* failed; the pushes into the local prices are seen by nothing before
RestSettle003 ==
  /\ variant = "part_003" /\ rf.pc = "rest"
  /\ IF \E p \in 2..Len(arr) : arr[p].status # "ok"
     THEN SettleF(Throw("ESI page failed"), rf)
     ELSE \E prices \in {rf.prices \o ValidPrices(PagesFrom(arr, 2, Len(arr)))} :
            SettleF(aggregate003(prices, source), [rf EXCEPT !.prices = prices])
  /\ FrozenF

\* the first page of fetchAllEsiSellOrders arrives (part_009 98-112): pages
\* 2..pagesToGet are requested together
Page1Response009 ==
  /\ variant = "part_009" /\ rf.pc = "page1"
  /\ LET res == arr[1]
         pagesToGet == MinInt(Len(arr), MaxPages009)
     IN  IF res.status # "ok"
         THEN SettleF(Throw("ESI HTTP"), rf)
         ELSE IF pagesToGet < 2
         THEN SettleF(rateFromEsi009(res.data, source), [rf EXCEPT !.orders = res.data])
         ELSE /\ rf' = [rf EXCEPT !.pc = "rest", !.orders = res.data,
                                  !.asked = 1..pagesToGet]
              /\ UNCHANGED <<plexISK, tbody>>
  /\ FrozenF

\* the answer for page p arrives (part_009 108-116): a failure rejects
\* Promise.all, whose catch gives [] for rest; the last success resolves it
PageArrives009(p) ==
  /\ variant = "part_009" /\ rf.pc = "rest"
  /\ p \in rf.asked \ ({1} \cup rf.got)
  /\ IF arr[p].status # "ok"
     THEN SettleF(rateFromEsi009(rf.orders, source), rf)
     ELSE IF rf.got \cup {p} = rf.asked \ {1}
     THEN \E orders \in {rf.orders \o PagesFrom(arr, 2, MinInt(Len(arr), MaxPages009))} :
            SettleF(rateFromEsi009(orders, source),
                    [rf EXCEPT !.orders = orders, !.got = @ \cup {p}])
     ELSE /\ rf' = [rf EXCEPT !.got = @ \cup {p}]
          /\ UNCHANGED <<plexISK, tbody>>
  /\ FrozenF

NextF ==
  \/ FirstSourceResponse
  \/ PageResponse002
  \/ PageResponse004
  \/ Page1Response003
  \/ RestSettle003
  \/ Page1Response009
  \/ \E p \in 2..MaxPages009 : PageArrives009(p)

SpecF == InitF /\ [][NextF]_vars

\* the first source has answered with a finite rate above zero
FirstGood(out) ==
  /\ ~out.threw /\ out.detail # "pending"
  /\ out.value.k = "fin" /\ out.value.n > 0

\* C16: in part_002 and part_009 the ESI orders are requested only after the
\* first source (Adam4Eve, Fuzzwork) has thrown or returned no usable value; a
\* usable value of the first source ends the refresh with plexISK equal to it
\* and no ESI request; when the first source gives nothing the ESI orders are
\* requested, and when they fail as well the table shows an error row and
\* plexISK keeps its old value.
C16_SourcesInOrder ==
  variant \in FallbackVariants =>
    /\ rf.pc = "first" => rf.asked = {}
    /\ rf.asked # {} => ~FirstGood(rf.first)
    /\ (rf.pc # "first" /\ FirstGood(rf.first)) =>
         /\ rf.pc = "done" /\ rf.result = "ok" /\ rf.asked = {}
         /\ plexISK = rf.first.value /\ tbody.kind = "rows"
    /\ (rf.pc # "first" /\ ~FirstGood(rf.first)) => 1 \in rf.asked
    /\ (rf.pc = "done" /\ ~FirstGood(rf.first)
          /\ (rf.result = "failed" \/ arr[1].status # "ok")) =>
         /\ rf.result = "failed" /\ tbody.kind = "error" /\ plexISK = OldRateF

\* Fuzzwork answered without a usable value, the ESI orders were requested and
\* failed as well
C16_Witness ==
  /\ variant = "part_009" /\ rf.pc = "done"
  /\ ~rf.first.threw /\ rf.first.value = Null
  /\ 2 \in rf.asked /\ rf.result = "failed"
  /\ tbody.kind = "error" /\ plexISK = OldRateF

SequentialVariants == {"part_002", "part_004"}

\* the requested pages after the first that were answered with a non-success
FailedLaterPages == {p \in rf.asked : p > 1 /\ arr[p].status # "ok"}

\* C17: in part_002 and part_004, when the first page succeeded and a page
\* after it is answered with a non-success, the refresh does not fail: the rate
\* is the aggregate of the prices of the pages before the failing one.
C17_LaterPageFailureKept ==
  (/\ variant \in SequentialVariants /\ rf.pc = "done"
   /\ 1 \in rf.asked /\ arr[1].status = "ok"
   /\ FailedLaterPages # {}) =>
    \A p \in FailedLaterPages :
      LET kept == AggregateOrders(PagesFrom(arr, 1, p - 1), source)
      IN  ~kept.threw =>
            /\ rf.result = "ok" /\ tbody.kind = "rows"
            /\ plexISK = kept.value

\* the order ids of a list of orders
OrderIds(orders) == {orders[i].order_id : i \in 1..Len(orders)}

\* C18: in part_009 the orders the ESI adapter returns contain the orders of
\* the first page and of every later page whose answer was received
\* successfully, whichever order the answers arrive in and whichever page fails.
C18_ReceivedPagesKept ==
  (variant = "part_009" /\ rf.pc = "done" /\ 1 \in rf.asked /\ arr[1].status = "ok") =>
    \A p \in {1} \cup rf.got : OrderIds(arr[p].data) \subseteq OrderIds(rf.orders)

CollectingVariants == {"part_002", "part_003", "part_009"}

\* every page the first response declares is answered with orders
AllPagesAnswer ==
  \A p \in 1..Len(arr) : arr[p].status = "ok" /\ Len(arr[p].data) > 0

\* the smallest finite positive price of the orders: an integer here
MinValidPrice(orders) ==
  LET ps == {orders[i].price.n : i \in
               {j \in 1..Len(orders) : orders[j].price.k = "fin" /\ orders[j].price.n > 0}}
  IN  CHOOSE m \in ps : \A x \in ps : m <= x

\* C19: in part_009, part_002 and part_003, when every page 1..X-Pages is
\* answered successfully and the policy is 'min', the ESI adapter yields the
\* smallest valid price over all the pages as the rate.
C19_MinOverAllPages ==
  (/\ variant \in CollectingVariants /\ rf.pc = "done" /\ 1 \in rf.asked
   /\ source = "min" /\ AllPagesAnswer) =>
    /\ rf.result = "ok"
    /\ plexISK = Num(MinValidPrice(PagesFrom(arr, 1, Len(arr))))

-----------------------------------------------------------------------------
(* An empty packs.json: part_005 69-82 (part_006 46-51 and the first        *)
(* program of part_003 29-37 validate the list in the same way)             *)

\* the step in which refresh r receives packs.json as an empty list
LoadsEmptyPacks(r) ==
  /\ rf[r].pc = "loadPacks" /\ rf'[r].pc # "loadPacks"
  /\ last'.op = "packs.json" /\ last'.r = r
  /\ last'.arg.status = "ok" /\ Len(last'.arg.data) = 0

\* C20: a refresh whose packs.json loads successfully as an empty list does
\* not end in Error on that account: it goes on to the rate, and the table
\* shows no error row.
C20_EmptyPacksIsNotError ==
  [][\A r \in Refreshes :
       LoadsEmptyPacks(r) =>
         /\ rf'[r].result # "failed"
         /\ tbody'.kind # "error"]_vars

-----------------------------------------------------------------------------
(* Rows without a usable amount: script.js 115-157 and 41-48 *)

\* the packs whose plex_amount is zero or missing
BadAmount(ps) ==
  {i \in 1..Len(ps) : ps[i].plex_amount = Undef \/ ps[i].plex_amount = Num(0)}

\* C21: after renderValueTable, a pack whose plex_amount is zero or missing
\* has no Best badge in either column, and when some pack has a usable amount
\* the badge of each column is on such a pack.
C21_BadRowNeverBest ==
  (ret.done /\ tbody.kind = "rows") =>
    /\ Len(tbody.rows) = Len(packs)
    /\ \A i \in BadAmount(packs) :
         ~tbody.rows[i].isBestA /\ ~tbody.rows[i].isBestB
    /\ BadAmount(packs) # 1..Len(packs) =>
         /\ BadgesA(tbody) \cap (1..Len(packs) \ BadAmount(packs)) # {}
         /\ BadgesB(tbody) \cap (1..Len(packs) \ BadAmount(packs)) # {}

-----------------------------------------------------------------------------
(* indexOfStrictMin on an empty list: script.js 41-48, part_007 215-223 *)

\* C22: indexOfStrictMin applied to an empty list returns no index: its result
\* is not a number that could index a row.
C22_EmptyListGivesNoIndex ==
  (ret.done /\ last.op = "indexOfStrictMin" /\ Len(arr) = 0) => ret.v \notin Nat

-----------------------------------------------------------------------------
(* computeRows on its own: part_000 91-118, part_001 59-98, part_010 70-97, *)
(* part_011 77-105                                                          *)

MathMinVariants == {"part_000", "part_001", "part_010", "part_011"}

\* the variants whose computeRows / renderPacks ranks with indexOfStrictMin:
\* part_005 110-148, part_004 257-294, script.js 329-366
StrictMinVariants == {"part_005", "part_004", "script.js"}

InitRows ==
  /\ variant \in MathMinVariants \cup StrictMinVariants
  /\ writer = NoWriter
  /\ packs \in SeqUpTo(PackUniverse, MaxPacks)
  /\ plexISK \in GoodRates
  /\ bestDollarPerPLEX = Null
  /\ tbody = Status("Loading")
  /\ ret = NoRet
  /\ plans = <<>> /\ omegaBody = Blank /\ source = "median" /\ alerts = 0
  /\ rf = <<>> /\ last = NoLast /\ arr = <<>>

CallComputeRows ==
  /\ ~ret.done
  /\ variant \in MathMinVariants
  /\ tbody' = computeRowsMathMin(packs, plexISK)
  /\ ret' = [done |-> TRUE, v |-> 0]
  /\ last' = [op |-> "computeRows", r |-> 0, arg |-> Null]
  /\ UNCHANGED <<variant, writer, packs, plans, plexISK, bestDollarPerPLEX, omegaBody,
                 source, alerts, rf, arr>>

CallComputeRowsStrictMin ==
  /\ ~ret.done
  /\ variant \in StrictMinVariants
  /\ tbody' = computeRows(packs, plexISK)
  /\ ret' = [done |-> TRUE, v |-> 0]
  /\ last' = [op |-> "computeRows", r |-> 0, arg |-> Null]
  /\ UNCHANGED <<variant, writer, packs, plans, plexISK, bestDollarPerPLEX, omegaBody,
                 source, alerts, rf, arr>>

NextRows == CallComputeRows \/ CallComputeRowsStrictMin

SpecRows == InitRows /\ [][NextRows]_vars

\* C23: after computeRows on a non-empty pack list, exactly one row carries
\* the Best badge of the $/PLEX column and exactly one that of the $/ISK
\* column, also when two packs have the same $/PLEX (every pack with a usable
\* plex_amount).
C23_OneBestByMathMin ==
  (/\ ret.done /\ last.op = "computeRows" /\ variant \in MathMinVariants
   /\ Len(packs) > 0 /\ BadAmount(packs) = {}) =>
    /\ tbody.kind = "rows"
    /\ Cardinality(BadgesA(tbody)) = 1
    /\ Cardinality(BadgesB(tbody)) = 1

-----------------------------------------------------------------------------
(* The Fuzzwork-only program: part_003, second program, lines 193-253 *)

\* fetchPlexISK() on a response: the value it assigns to plexISK, or the
\* TypeError of data[...].sell on a payload without the PLEX node
fetchPlexISKFuzzwork(resp, src) ==
  IF resp.status # "ok" THEN Throw("fetch")
  ELSE IF ~resp.data.hasNode THEN Throw("Cannot read properties of undefined")
  ELSE Return(CASE src = "avg" -> resp.data.sell.avg
                [] src = "min" -> resp.data.sell.min
                [] OTHER -> resp.data.sell.median)

\* loadPacks() on a response: no status check, res.json() may throw
loadPacksUnchecked(resp) ==
  IF resp.status # "ok" THEN Throw("JSON") ELSE Return(resp.data)

PendingG == [packs |-> "pending", rate |-> "pending", settled |-> "no"]

\* refresh() up to await Promise.all([loadPacks(), fetchPlexISK()])
InitG ==
  /\ variant = "part_003"
  /\ writer = NoWriter
  /\ packs \in PackLists
  /\ plexISK \in {Null, Num(9)}
  /\ source \in Sources
  /\ tbody = Status("Loading")
  /\ rf = PendingG
  /\ last = NoLast
  /\ plans = <<>> /\ bestDollarPerPLEX = Null /\ omegaBody = Blank
  /\ alerts = 0 /\ arr = <<>> /\ ret = NoRet

\* Promise.all settles on the first rejection or on the second success:
\* the catch block or computeRows(); afterwards an answer changes no table
SettleG(r, ps, rate, detail) ==
  IF rf.settled # "no" THEN rf' = r /\ UNCHANGED tbody
  ELSE IF "failed" \in {r.packs, r.rate}
  THEN rf' = [r EXCEPT !.settled = "rejected"] /\ tbody' = Error(detail)
  ELSE IF r.packs = "ok" /\ r.rate = "ok"
  THEN rf' = [r EXCEPT !.settled = "resolved"] /\ tbody' = computeRowsMathMin(ps, rate)
  ELSE rf' = r /\ UNCHANGED tbody

\* packs.json arrives
PacksResponseG ==
  /\ rf.packs = "pending"
  /\ \E resp \in FileResponses(PackLists) :
       LET out == loadPacksUnchecked(resp)
       IN  IF out.threw
           THEN /\ UNCHANGED packs
                /\ SettleG([rf EXCEPT !.packs = "failed"], packs, plexISK, out.detail)
           ELSE /\ packs' = out.value
                /\ SettleG([rf EXCEPT !.packs = "ok"], out.value, plexISK, "")
  /\ UNCHANGED <<variant, writer, plans, plexISK, bestDollarPerPLEX, omegaBody,
                 source, alerts, last, arr, ret>>

\* the Fuzzwork aggregates arrive
FuzzworkResponseG ==
  /\ rf.rate = "pending"
  /\ \E resp \in FuzzworkResponses :
       LET out == fetchPlexISKFuzzwork(resp, source)
       IN  /\ last' = [op |-> "fuzzwork", r |-> 0, arg |-> resp]
           /\ IF out.threw
              THEN /\ UNCHANGED plexISK
                   /\ SettleG([rf EXCEPT !.rate = "failed"], packs, plexISK, out.detail)
              ELSE /\ plexISK' = out.value
                   /\ SettleG([rf EXCEPT !.rate = "ok"], packs, out.value, "")
  /\ UNCHANGED <<variant, writer, packs, plans, bestDollarPerPLEX, omegaBody,
                 source, alerts, arr, ret>>

NextG == PacksResponseG \/ FuzzworkResponseG

SpecG == InitG /\ [][NextG]_vars

\* the feed has answered and its selected sell statistic is 0
ZeroFeed ==
  /\ last.op = "fuzzwork" /\ last.arg.status = "ok" /\ last.arg.data.hasNode
  /\ last.arg.data.sell[source] = Num(0)

\* C24: in the Fuzzwork-only program, once the feed has answered with a
\* selected statistic of 0, plexISK is not 0, and the refresh settles in its
\* catch block with an error row.
C24_ZeroFeedIsError ==
  ZeroFeed =>
    /\ plexISK # Num(0)
    /\ rf.settled # "no" => (rf.settled = "rejected" /\ tbody.kind = "error")

-----------------------------------------------------------------------------
(* fetchPLEXfromESI on its own: part_001 42-56, part_010 44-61,             *)
(* part_011 55-74                                                           *)

\* fetchPLEXfromESI() on the response resp: the rate it assigns to plexISK, or
\* the error it throws
fetchPLEXfromESI(resp) ==
  IF resp.status # "ok" THEN Throw("ESI prices HTTP")
  ELSE IF ~resp.isArray \/ Len(resp.data) = 0
       THEN Throw("ESI prices returned empty array.")
  ELSE IF FindPlex(resp.data, 1) = 0
       THEN Throw("PLEX (type_id 44992) not found in ESI prices.")
  ELSE LET chosen == ChosenPriceCoalesce(resp.data[FindPlex(resp.data, 1)])
       IN  IF ~IsFinite(chosen) \/ Le(chosen, Num(0))
           THEN Throw("PLEX price from ESI is missing or zero.")
           ELSE Return(chosen)

CoalesceVariants == {"part_001", "part_010", "part_011"}

InitCoalesce ==
  /\ variant \in CoalesceVariants
  /\ writer = NoWriter
  /\ arr \in PricesResponses
  /\ plexISK \in {Null, Num(3)}
  /\ ret = NoRet
  /\ packs = <<>> /\ plans = <<>> /\ bestDollarPerPLEX = Null
  /\ tbody = Status("Loading") /\ omegaBody = Blank /\ source = "median" /\ alerts = 0
  /\ rf = <<>> /\ last = NoLast

CallFetchPLEXfromESI ==
  /\ ~ret.done
  /\ LET out == fetchPLEXfromESI(arr)
     IN  /\ plexISK' = IF out.threw THEN plexISK ELSE out.value
         /\ ret' = [done |-> TRUE, v |-> out.threw]
  /\ last' = [op |-> "fetchPLEXfromESI", r |-> 0, arg |-> Null]
  /\ UNCHANGED <<variant, writer, packs, plans, bestDollarPerPLEX, tbody, omegaBody, source,
                 alerts, rf, arr>>

NextCoalesce == CallFetchPLEXfromESI

SpecCoalesce == InitCoalesce /\ [][NextCoalesce]_vars

\* C25: when the PLEX record's average_price is present but zero or negative
\* and its adjusted_price is finite and positive, fetchPLEXfromESI succeeds and
\* plexISK is the adjusted_price.
C25_AdjustedWhenAverageUnusable ==
  (/\ ret.done /\ last.op = "fetchPLEXfromESI" /\ PlexRecords(arr) # {}
   /\ PlexRecord(arr).average_price.k = "fin"
   /\ PlexRecord(arr).average_price.n <= 0
   /\ UsablePrice(PlexRecord(arr).adjusted_price)) =>
    /\ ~ret.v
    /\ plexISK = PlexRecord(arr).adjusted_price

-----------------------------------------------------------------------------
(* An Adam4Eve payload without a PLEX record: part_002 66-94 *)

\* Adam4Eve has answered with a non-empty array holding no record of type 44992
NoPlexInA4E ==
  /\ variant = "part_002" /\ last.op = "first"
  /\ last.arg.status = "ok" /\ Len(last.arg.data) > 0
  /\ \A i \in 1..Len(last.arg.data) : last.arg.data[i].type_id # Num(TYPE_PLEX)

\* C26: when the Adam4Eve array holds no record of type 44992,
\* fetchPlexFromA4E throws, so that the ESI orders are requested, and plexISK
\* is never the sell_price of a record of another type.
C26_NoPlexRecordFails ==
  NoPlexInA4E =>
    /\ rf.first.threw
    /\ 1 \in rf.asked
    /\ \A i \in 1..Len(last.arg.data) : plexISK # last.arg.data[i].sell_price

-----------------------------------------------------------------------------
(* renderValueTable called twice: script.js 115-157 *)

\* what an earlier refresh may have left in bestDollarPerPLEX
OldBests == {Null, Num(9)}

InitTwice ==
  /\ variant = "script.js"
  /\ writer = NoWriter
  /\ packs \in SeqUpTo(PackUniverse, MaxPacks)
  /\ plexISK \in GoodRates \cup {Null}
  /\ bestDollarPerPLEX \in OldBests
  /\ tbody = Status("Loading")
  /\ ret = NoRet
  /\ plans = <<>> /\ omegaBody = Blank /\ source = "median" /\ alerts = 0
  /\ rf = <<>> /\ last = NoLast /\ arr = <<>>

\* one call of renderValueTable(); what the page showed before it is kept
\* for comparison
CallRenderValueTableAgain ==
  /\ ret.v < 2
  /\ LET out == renderValueTable(packs, plexISK, bestDollarPerPLEX)
     IN  /\ tbody' = out.tbody
         /\ bestDollarPerPLEX' = out.best
  /\ ret' = [done |-> ret.v = 1, v |-> ret.v + 1]
  /\ last' = [op |-> "renderValueTable", r |-> ret.v + 1,
              arg |-> [tbody |-> tbody, best |-> bestDollarPerPLEX]]
  /\ UNCHANGED <<variant, writer, packs, plans, plexISK, omegaBody, source, alerts, rf, arr>>

NextTwice == CallRenderValueTableAgain

SpecTwice == InitTwice /\ [][NextTwice]_vars

\* C27: the second of two consecutive calls of renderValueTable, with packs
\* and plexISK unchanged, leaves the same rows, the same Best badges on both
\* metrics and the same bestDollarPerPLEX as the first; whatever
\* bestDollarPerPLEX held before, the rows carry a $/PLEX badge and
\* bestDollarPerPLEX is the $/PLEX of the badged row.
C27_SameTwice ==
  /\ ret.v = 2 => (tbody = last.arg.tbody /\ bestDollarPerPLEX = last.arg.best)
  /\ (ret.v >= 1 /\ tbody.kind = "rows") =>
       /\ BadgesA(tbody) # {}
       /\ \A i \in BadgesA(tbody) : bestDollarPerPLEX = tbody.rows[i].perPLEX

\* two packs with the same $/PLEX were valuated twice
C27_Witness ==
  /\ ret.v = 2 /\ tbody.kind = "rows" /\ Len(packs) = 2
  /\ tbody.rows[1].perPLEX = tbody.rows[2].perPLEX
  /\ tbody.rows[1].perPLEX.k = "fin"
  /\ last.arg.tbody = tbody
  /\ BadgesA(tbody) = {1} /\ BadgesB(tbody) = {1}

-----------------------------------------------------------------------------
(* The $/ISK badge of the indexOfStrictMin variants: part_005 110-148,      *)
(* part_004 257-294, script.js 329-366                                      *)

\* the $/PLEX values of the rows are finite and pairwise more than Eps apart
PerPLEXApart(t) ==
  /\ \A i \in 1..Len(t.rows) : t.rows[i].perPLEX.k = "fin"
  /\ \A i, j \in 1..Len(t.rows) :
       i # j => \/ Lt(Num(Eps), Sub(t.rows[i].perPLEX, t.rows[j].perPLEX))
                \/ Lt(Num(Eps), Sub(t.rows[j].perPLEX, t.rows[i].perPLEX))

\* C28: after computeRows with a positive rate on packs whose $/PLEX values
\* are pairwise more than Eps apart, the row badged Best for $/ISK has the
\* smallest $/ISK and is the row badged Best for $/PLEX.
C28_IskBadgeOnSmallest ==
  (/\ ret.done /\ last.op = "computeRows" /\ variant \in StrictMinVariants
   /\ tbody.kind = "rows" /\ Positive(plexISK) /\ PerPLEXApart(tbody)) =>
    /\ BadgesB(tbody) = BadgesA(tbody)
    /\ \A i \in BadgesB(tbody) :
         \A j \in 1..Len(tbody.rows) : Le(tbody.rows[i].metricB, tbody.rows[j].metricB)

-----------------------------------------------------------------------------
(* A manual rate given during a refresh: script.js 369-378, 428-438, 306-326 *)

\* the step in which refresh r completes, the last thing before it having
\* been a call of setManualPLEX with a valid value (so given while r was in
\* flight, and with no refresh triggered since)
CompletesAfterManual(r) ==
  /\ last.op = "setManualPLEX" /\ ValidArg(last.arg)
  /\ rf[r].pc = "fetchPLEX" /\ rf'[r].pc = "done"

\* C29: when a refresh completes after a valid manual rate was given while it
\* was in flight, plexISK is still the manual rate and the rows shown are
\* valuated with it.
C29_ManualRateSurvivesRefresh ==
  [][\A r \in Refreshes :
       CompletesAfterManual(r) =>
         /\ plexISK' = last.arg
         /\ tbody'.kind # "error"
         /\ tbody'.kind = "rows" =>
              \A i \in 1..Len(tbody'.rows) :
                tbody'.rows[i].metricB = Div(tbody'.rows[i].perPLEX, last.arg)]_vars

-----------------------------------------------------------------------------
(* The page loop of fetchPlexFromESI_MinSell on long markets: part_002      *)
(* 97-152                                                                   *)

\* markets of up to one page more than the cap: every page holds an order
\* except page k, which is answered in any of the ways; the X-Pages header is
\* sent with the page count or not at all
LongMarkets ==
  UNION {{[p \in 1..n |-> PageOf(IF p = k THEN kind ELSE "high", p, xp)] :
            k \in 1..n, kind \in PageKinds, xp \in {-1, n}} :
           n \in 1..(PagesCap002 + 1)}

Init002 ==
  /\ variant = "part_002"
  /\ arr \in LongMarkets
  /\ source = "min"
  /\ plexISK = OldRateF
  /\ packs = <<PackC, PackA>>
  /\ tbody = Status("Loading")
  /\ rf = IdleF
  /\ plans = <<>> /\ bestDollarPerPLEX = Null /\ omegaBody = Blank
  /\ alerts = 0 /\ last = NoLast /\ ret = NoRet /\ writer = NoWriter

Next002 == FirstSourceResponse \/ PageResponse002

Spec002 == Init002 /\ [][Next002]_vars

\* C30: the loop of fetchPlexFromESI_MinSell issues at most 15 page requests,
\* for the pages 1, 2, 3, ... in this order; every page before a requested one
\* was answered with a non-empty list, and no requested page is beyond the
\* X-Pages of an earlier answer; every answer either ends the loop or moves it
\* to the next page, of which there are at most 15, so the loop ends.
C30_LoopTerminates ==
  /\ [](/\ Cardinality(rf.asked) <= PagesCap002
        /\ rf.asked = 1..rf.page
        /\ \A p \in rf.asked : \A q \in 1..(p - 1) :
             /\ PageAt(arr, q).status = "ok" /\ Len(PageAt(arr, q).data) > 0
             /\ PageAt(arr, q).xPages # -1 => p <= PageAt(arr, q).xPages)
  /\ [][rf'.asked # rf.asked => rf'.asked = rf.asked \cup {Cardinality(rf.asked) + 1}]_vars
  /\ [][rf.pc = "seq" =>
         \/ rf'.pc = "done"
         \/ rf'.pc = "seq" /\ rf'.page = rf.page + 1 /\ rf'.page <= PagesCap002]_vars

\* sixteen pages of orders without an X-Pages header: the loop has stopped
\* after the fifteenth
C30_Witness ==
  /\ rf.pc = "done" /\ rf.result = "ok"
  /\ Len(arr) > PagesCap002 /\ arr[1].xPages = -1
  /\ rf.asked = 1..PagesCap002

====
